---------------------------- MODULE Spec2Model ----------------------------
(***************************************************************************)
(* KnotenCore: the native resource registry (src/natives/registry.rs) and  *)
(* the tree-walking evaluator (src/executor.rs).                           *)
(***************************************************************************)
EXTENDS Integers, Sequences, FiniteSets, TLC

(***************************************************************************)
(* Bounds of the model.                                                    *)
(***************************************************************************)
\* Handles are allocated while COUNTER_NEXT_ID <= MaxId.
MaxId == 2
\* registry_retain is applied while ref_count <= MaxRetain.
MaxRetain == 1
\* registry_increment is applied while count < MaxCount.
MaxCount == 3
\* registry_voxel_add_block / registry_file_write while the payload is shorter.
MaxPayload == 1
\* Int is IntBits wide, two's complement.
IntBits == 7
\* A While runs at most MaxIter rounds in one execute.
MaxIter == 3

VARIABLES
    registry,   \* COUNTER_REGISTRY: HashMap<usize, RegistryEntry>
    next_id,    \* COUNTER_NEXT_ID
    last,       \* the last call: [op, h, ret, diag]
    issued,     \* history: the handles successful creates have returned
    track,      \* whether retains and releases are counted in this behaviour
    retains,    \* history: per handle, the retains applied to its live entry
    releases,   \* history: per handle, the releases applied to its live entry
    frees,      \* history: per handle, the frees applied to its live entry
    removals,   \* history: per handle, how often its entry left the table
    incs        \* history: per handle, the increments since its creation

regVars ==
    <<registry, next_id, last, issued, track, retains, releases, frees, removals, incs>>

VARIABLES
    th,         \* per thread: the call it is in and where it stands in it
    id_lock,    \* the thread holding the COUNTER_NEXT_ID mutex, or "none"
    reg_lock    \* the thread holding the COUNTER_REGISTRY mutex, or "none"

concVars == <<th, id_lock, reg_lock>>

VARIABLES
    memory,           \* ExecutionEngine.memory: HashMap<String, RelType>
    root,             \* the AST handed to the last execute
    report,           \* the String the last execute returned
    status,           \* "new", "returned", or "panicked" when execute unwound
    overflow_checks,  \* whether the build traps integer overflow (debug) or wraps
    probe             \* history of the last execute: what happened after a Fault

evalVars == <<memory, root, report, status, overflow_checks, probe>>

VARIABLES
    render_loop,      \* a caller looping `while update(h)`: [op, h, state, tick]
    handled,          \* what RegistryModule::handle received, if the last call came through it
    native_call       \* the last call the dispatch entry point received

bridgeVars == <<handled, native_call>>

callerVars == <<render_loop, bridgeVars>>

nonRegVars == <<concVars, evalVars, callerVars>>

vars == <<regVars, concVars, evalVars, callerVars>>

(***************************************************************************)
(* Values                                                                  *)
(***************************************************************************)
Kinds == {"Counter", "Window", "File", "Timestamp", "GpuContext", "VoxelWorld"}

\* `handle_id as usize`: a negative i64 wraps to the top of the usize range
\* (width scaled from 2^64 to 2^30, TLC's integers being 32-bit).
UsizeSpan == 1073741824

AsUsize(handle_id) == handle_id % UsizeSpan

Ids == 1 .. MaxId

\* The handle arguments callers pass: the -1 sentinel of a failed create and
\* every id the counter can issue.
HandleArgs == {-1} \cup Ids

EmptyMap == [k \in {} |-> 0]

Insert(reg, id, entry) ==
    [k \in (DOMAIN reg) \cup {id} |-> IF k = id THEN entry ELSE reg[k]]

Remove(reg, id) == [k \in (DOMAIN reg) \ {id} |-> reg[k]]

NewEntry(handle) == [handle |-> handle, ref_count |-> 1]

StatefulCounter == [kind |-> "Counter", count |-> 0]

\* minifb's initial framebuffer colour of registry_create_window.
InitialBuffer == 3355443

RegistryWindowState == [kind |-> "Window", buffer |-> InitialBuffer]

FileHandle == [kind |-> "File", written |-> 0]

Timestamp == [kind |-> "Timestamp"]

GpuContext == [kind |-> "GpuContext"]

VoxelWorldState == [kind |-> "VoxelWorld", voxels |-> <<>>]

NoDiag == ""

Call(op, h, ret, diag) == [op |-> op, h |-> h, ret |-> ret, diag |-> diag]

\* What a closure run under with_registry yields: the table it leaves, the
\* value it returns and the diagnostic it prints.
Out(reg, ret, diag) == [registry |-> reg, ret |-> ret, diag |-> diag]

(***************************************************************************)
(* Lifecycle                                                               *)
(***************************************************************************)
\* A retain that forgets to count.
retain_closure_noop(reg, id) == Out(reg, 0, NoDiag)

retain_closure(reg, id) ==
    IF id \in DOMAIN reg
    THEN Out([reg EXCEPT ![id].ref_count = @ + 1], 0, NoDiag)
    ELSE Out(reg, 0, NoDiag)

\* A release that decrements and leaves the entry in the table at zero.
release_closure_keep(reg, id) ==
    IF id \in DOMAIN reg
    THEN LET rc == IF reg[id].ref_count > 0
                   THEN reg[id].ref_count - 1
                   ELSE reg[id].ref_count
         IN  Out([reg EXCEPT ![id].ref_count = rc], 0, NoDiag)
    ELSE Out(reg, 0, NoDiag)

release_closure(reg, id) ==
    IF id \in DOMAIN reg
    THEN LET rc == IF reg[id].ref_count > 0
                   THEN reg[id].ref_count - 1
                   ELSE reg[id].ref_count
         IN  IF rc = 0
             THEN Out(Remove(reg, id), 0, NoDiag)
             ELSE Out([reg EXCEPT ![id].ref_count = rc], 0, NoDiag)
    ELSE Out(reg, 0, NoDiag)

\* A free that honours the reference count, as release does.
free_closure_counted(reg, id) ==
    IF id \in DOMAIN reg
    THEN IF reg[id].ref_count > 1
         THEN Out([reg EXCEPT ![id].ref_count = @ - 1], 0, NoDiag)
         ELSE Out(Remove(reg, id), 0, NoDiag)
    ELSE Out(reg, 0, "Warning: Double free or invalid handle")

\* A free that empties the table.
free_closure_clear(reg, id) ==
    IF id \in DOMAIN reg
    THEN Out(EmptyMap, 0, NoDiag)
    ELSE Out(reg, 0, "Warning: Double free or invalid handle")

free_closure(reg, id) ==
    IF id \in DOMAIN reg
    THEN Out(Remove(reg, id), 0, NoDiag)
    ELSE Out(reg, 0, "Warning: Double free or invalid handle")

(***************************************************************************)
(* Counter                                                                 *)
(***************************************************************************)
\* An increment that loses its update.
increment_closure_lost(reg, id) ==
    IF id \in DOMAIN reg
    THEN IF reg[id].handle.kind = "Counter"
         THEN Out(reg, 0, NoDiag)
         ELSE Out(reg, 0, "Error: Target handle is not a Counter")
    ELSE Out(reg, 0, "Error: Counter handle not found")

increment_closure(reg, id) ==
    IF id \in DOMAIN reg
    THEN IF reg[id].handle.kind = "Counter"
         THEN Out([reg EXCEPT ![id].handle.count = @ + 1], 0, NoDiag)
         ELSE Out(reg, 0, "Error: Target handle is not a Counter")
    ELSE Out(reg, 0, "Error: Counter handle not found")

get_value_closure(reg, id) ==
    IF id \in DOMAIN reg
    THEN IF reg[id].handle.kind = "Counter"
         THEN Out(reg, reg[id].handle.count, NoDiag)
         ELSE Out(reg, -1, NoDiag)
    ELSE Out(reg, -1, "Error: Counter handle not found")

(***************************************************************************)
(* Timestamp, Window, File, GPU, VoxelWorld                                *)
(***************************************************************************)
\* t.elapsed().as_millis(): whatever the clock says, ms >= 0.
elapsed_ms_closure(reg, id, ms) ==
    IF id \in DOMAIN reg
    THEN IF reg[id].handle.kind = "Timestamp"
         THEN Out(reg, ms, NoDiag)
         ELSE Out(reg, -1, NoDiag)
    ELSE Out(reg, -1, NoDiag)

\* update_with_buffer(..).is_ok() && is_open(): the backend's answer, open.
window_update_closure_stale(reg, id, open) == Out(reg, open, NoDiag)

window_update_closure(reg, id, open) ==
    IF id \in DOMAIN reg
    THEN IF reg[id].handle.kind = "Window"
         THEN Out(reg, open, NoDiag)
         ELSE Out(reg, FALSE, NoDiag)
    ELSE Out(reg, FALSE, NoDiag)

\* write_all: io_ok is the outcome of the write.
file_write_closure(reg, id, io_ok) ==
    IF id \in DOMAIN reg
    THEN IF reg[id].handle.kind = "File"
         THEN IF io_ok
              THEN Out([reg EXCEPT ![id].handle.written = @ + 1], 0, NoDiag)
              ELSE Out(reg, 0, "Failed to write to file handle")
         ELSE Out(reg, 0, "Handle is not a File")
    ELSE Out(reg, 0, "Handle not found")

Clamp255(c) == IF c < 0 THEN 0 ELSE IF c > 255 THEN 255 ELSE c

\* 0x00RRGGBB
PackColor(r, g, b) == Clamp255(r) * 65536 + Clamp255(g) * 256 + Clamp255(b)

fill_color_closure(reg, id, color) ==
    IF id \in DOMAIN reg
    THEN IF reg[id].handle.kind = "Window"
         THEN Out([reg EXCEPT ![id].handle.buffer = color], 0, NoDiag)
         ELSE Out(reg, 0, "Handle is not a Window")
    ELSE Out(reg, 0, "Window handle not found")

voxel_add_block_closure(reg, id, block) ==
    IF id \in DOMAIN reg
    THEN IF reg[id].handle.kind = "VoxelWorld"
         THEN Out([reg EXCEPT ![id].handle.voxels = Append(@, block)], 0, NoDiag)
         ELSE Out(reg, 0, NoDiag)
    ELSE Out(reg, 0, NoDiag)

voxel_render_frame_closure(reg, id, open) ==
    IF id \in DOMAIN reg
    THEN IF reg[id].handle.kind = "VoxelWorld"
         THEN Out(reg, open, NoDiag)
         ELSE Out(reg, FALSE, NoDiag)
    ELSE Out(reg, FALSE, NoDiag)

dump_closure(reg) == Out(reg, Cardinality(DOMAIN reg), NoDiag)

(***************************************************************************)
(* The calls, each a whole handler.                                        *)
(***************************************************************************)
Live(reg, handle_id) == AsUsize(handle_id) \in DOMAIN reg

LiveKind(reg, handle_id, kind) ==
    /\ Live(reg, handle_id)
    /\ reg[AsUsize(handle_id)].handle.kind = kind

\* What running one closure under with_registry does to the table, with the
\* bookkeeping of the history.
Effect(op, h, out) ==
    /\ registry' = out.registry
    /\ retains' = IF track /\ op = "retain" /\ Live(registry, h)
                  THEN [retains EXCEPT ![h] = @ + 1] ELSE retains
    /\ releases' = IF track /\ op = "release" /\ Live(registry, h)
                   THEN [releases EXCEPT ![h] = @ + 1] ELSE releases
    /\ frees' = IF track /\ op \in {"free", "window_close"} /\ Live(registry, h)
                THEN [frees EXCEPT ![h] = @ + 1] ELSE frees
    /\ removals' = [id \in Ids |->
                      IF track /\ id \in DOMAIN registry /\ id \notin DOMAIN out.registry
                      THEN removals[id] + 1 ELSE removals[id]]
    /\ incs' = [id \in Ids |->
                  IF id \notin DOMAIN out.registry THEN 0
                  ELSE IF op = "increment" /\ id = h
                          /\ LiveKind(registry, h, "Counter")
                       THEN incs[id] + 1
                       ELSE incs[id]]

\* A call that runs one closure under with_registry, no other call running.
Apply(op, h, out) ==
    /\ Effect(op, h, out)
    /\ last' = Call(op, h, out.ret, out.diag)
    /\ UNCHANGED <<next_id, issued, track>>
    /\ UNCHANGED nonRegVars

\* An allocator that hands out the lowest id not in the table.
Created_reuse(op, handle) ==
    /\ next_id <= MaxId
    /\ next_id' = next_id + 1
    /\ LET id == CHOOSE i \in Ids \ DOMAIN registry :
                    \A j \in Ids \ DOMAIN registry : i <= j
       IN  /\ registry' = Insert(registry, id, NewEntry(handle))
           /\ issued' = issued \cup {id}
           /\ last' = Call(op, 0, id, NoDiag)
    /\ UNCHANGED <<track, retains, releases, frees, removals, incs>>
    /\ UNCHANGED nonRegVars

Created(op, handle) ==
    /\ next_id <= MaxId
    /\ next_id' = next_id + 1
    /\ registry' = Insert(registry, next_id, NewEntry(handle))
    /\ issued' = issued \cup {next_id}
    /\ last' = Call(op, 0, next_id, NoDiag)
    /\ UNCHANGED <<track, retains, releases, frees, removals, incs>>
    /\ UNCHANGED nonRegVars

\* A create that inserts its entry before it learns that the backend failed.
CreateIdFirst_leak(op, handle, ok) ==
    /\ next_id <= MaxId
    /\ next_id' = next_id + 1
    /\ registry' = Insert(registry, next_id, NewEntry(handle))
    /\ issued' = IF ok THEN issued \cup {next_id} ELSE issued
    /\ last' = IF ok THEN Call(op, 0, next_id, NoDiag)
                     ELSE Call(op, 0, -1, "Failed to create")
    /\ UNCHANGED <<track, retains, releases, frees, removals, incs>>
    /\ UNCHANGED nonRegVars

\* A create that takes its id first: the id is consumed whether or not the
\* backend then succeeds.
CreateIdFirst(op, handle, ok) ==
    IF ok
    THEN Created(op, handle)
    ELSE /\ next_id <= MaxId
         /\ next_id' = next_id + 1
         /\ last' = Call(op, 0, -1, "Failed to create")
         /\ UNCHANGED <<registry, issued, track, retains, releases, frees, removals, incs>>
         /\ UNCHANGED nonRegVars

\* A create that takes its id only once the backend has succeeded.
CreateBackendFirst(op, handle, ok) ==
    IF ok
    THEN Created(op, handle)
    ELSE /\ last' = Call(op, 0, -1, "Failed to create")
         /\ UNCHANGED <<registry, next_id, issued, track, retains, releases, frees, removals, incs>>
         /\ UNCHANGED nonRegVars

registry_retain(handle_id) ==
    /\ Live(registry, handle_id)
          => /\ registry[AsUsize(handle_id)].ref_count <= MaxRetain
             /\ track => retains[handle_id] < MaxRetain
    /\ Apply("retain", handle_id, retain_closure(registry, AsUsize(handle_id)))

registry_release(handle_id) ==
    Apply("release", handle_id, release_closure(registry, AsUsize(handle_id)))

registry_create_counter == CreateIdFirst("create_counter", StatefulCounter, TRUE)

registry_increment(handle_id) ==
    /\ LiveKind(registry, handle_id, "Counter")
          => registry[AsUsize(handle_id)].handle.count < MaxCount
    /\ Apply("increment", handle_id, increment_closure(registry, AsUsize(handle_id)))

registry_get_value(handle_id) ==
    Apply("get_value", handle_id, get_value_closure(registry, AsUsize(handle_id)))

registry_free(handle_id) ==
    Apply("free", handle_id, free_closure(registry, AsUsize(handle_id)))

registry_dump == Apply("dump", 0, dump_closure(registry))

registry_now == CreateIdFirst("now", Timestamp, TRUE)

registry_elapsed_ms(handle_id, ms) ==
    Apply("elapsed_ms", handle_id, elapsed_ms_closure(registry, AsUsize(handle_id), ms))

registry_create_window(ok) == CreateIdFirst("create_window", RegistryWindowState, ok)

registry_window_update(handle_id, open) ==
    Apply("window_update", handle_id,
          window_update_closure(registry, AsUsize(handle_id), open))

\* registry_window_close calls registry_free.
registry_window_close(handle_id) ==
    Apply("window_close", handle_id, free_closure(registry, AsUsize(handle_id)))

registry_file_create(ok) == CreateIdFirst("file_create", FileHandle, ok)

registry_file_write(handle_id, io_ok) ==
    /\ LiveKind(registry, handle_id, "File")
          => registry[AsUsize(handle_id)].handle.written < MaxPayload
    /\ Apply("file_write", handle_id,
             file_write_closure(registry, AsUsize(handle_id), io_ok))

registry_gpu_init(ok) == CreateBackendFirst("gpu_init", GpuContext, ok)

registry_fill_color(window_handle, r, g, b) ==
    Apply("fill_color", window_handle,
          fill_color_closure(registry, AsUsize(window_handle), PackColor(r, g, b)))

registry_voxel_world_create(ok) ==
    CreateBackendFirst("voxel_world_create", VoxelWorldState, ok)

registry_voxel_add_block(world_handle, x, y, z) ==
    /\ LiveKind(registry, world_handle, "VoxelWorld")
          => Len(registry[AsUsize(world_handle)].handle.voxels) < MaxPayload
    /\ Apply("voxel_add_block", world_handle,
             voxel_add_block_closure(registry, AsUsize(world_handle), <<x, y, z>>))

registry_voxel_render_frame(world_handle, open) ==
    Apply("voxel_render_frame", world_handle,
          voxel_render_frame_closure(registry, AsUsize(world_handle), open))

\* A caller's render loop, `while registry_window_update(h) {}` or `while
\* registry_voxel_render_frame(h) {}`: not running, running, or left.
NoLoop == [op |-> "none", h |-> 0, state |-> "idle", tick |-> 0]

UpdateOps == {"window_update", "voxel_render_frame"}

\* The caller enters the loop on handle h.
StartLoop(op, h) ==
    /\ render_loop.state = "idle"
    /\ render_loop' = [op |-> op, h |-> h, state |-> "running", tick |-> 0]
    /\ UNCHANGED <<regVars, concVars, evalVars, bridgeVars>>

\* One test of the loop condition: the update call, and the loop is left
\* when it returns false.
RenderLoopStep(open) ==
    LET h == render_loop.h
        out == IF render_loop.op = "window_update"
               THEN window_update_closure(registry, AsUsize(h), open)
               ELSE voxel_render_frame_closure(registry, AsUsize(h), open)
    IN  /\ render_loop.state = "running"
        /\ Effect(render_loop.op, h, out)
        /\ last' = Call(render_loop.op, h, out.ret, out.diag)
        /\ render_loop' = [render_loop EXCEPT
                              !.state = IF out.ret THEN "running" ELSE "done",
                              !.tick = 1 - @]
        /\ UNCHANGED <<next_id, issued, track, concVars, evalVars, bridgeVars>>

(***************************************************************************)
(* Threads: the calls as the steps that take and drop the two mutexes.     *)
(***************************************************************************)
Threads == {"t1", "t2"}

Idle == [op |-> "idle", h |-> 0, ok |-> TRUE, pc |-> 0, id |-> 0, val |-> 0]

\* The resource a create installs.
HandleOf(op) ==
    CASE op = "create_counter" -> StatefulCounter
      [] op = "now" -> Timestamp
      [] op = "create_window" -> RegistryWindowState
      [] op = "file_create" -> FileHandle
      [] op = "gpu_init" -> GpuContext
      [] op = "voxel_world_create" -> VoxelWorldState

\* The closure a call on a handle runs under with_registry.
ClosureOf(op, reg, id) ==
    CASE op = "retain" -> retain_closure(reg, id)
      [] op = "release" -> release_closure(reg, id)
      [] op \in {"free", "window_close"} -> free_closure(reg, id)
      [] op = "increment" -> increment_closure(reg, id)
      [] op = "get_value" -> get_value_closure(reg, id)

\* A window_close that takes the registry mutex itself before it calls
\* registry_free.
Program_reentrant(op) ==
    CASE op \in {"create_counter", "now"} ->
            <<"lock_next_id", "lock_registry", "insert", "return">>
      [] op \in {"create_window", "file_create"} ->
            <<"lock_next_id", "backend", "lock_registry", "insert", "return">>
      [] op \in {"gpu_init", "voxel_world_create"} ->
            <<"backend", "lock_next_id", "lock_registry", "insert", "return">>
      [] op = "window_close" -> <<"lock_registry", "lock_registry", "closure">>
      [] op = "increment" -> <<"lock_registry", "load", "store">>
      [] OTHER -> <<"lock_registry", "closure">>

\* Each call as the sequence of its steps.  lock_next_id is
\* COUNTER_NEXT_ID.lock() with the read and the increment of the id; the guard
\* is dropped when the function returns.  lock_registry is the lock() of
\* with_registry; insert and closure run the closure and drop the guard.  The
\* closure of increment is taken as the two halves of `counter.count += 1`,
\* the read and the write, both inside with_registry.
Program(op) ==
    CASE op \in {"create_counter", "now"} ->
            <<"lock_next_id", "lock_registry", "insert", "return">>
      [] op \in {"create_window", "file_create"} ->
            <<"lock_next_id", "backend", "lock_registry", "insert", "return">>
      [] op \in {"gpu_init", "voxel_world_create"} ->
            <<"backend", "lock_next_id", "lock_registry", "insert", "return">>
      [] op = "increment" -> <<"lock_registry", "load", "store">>
      [] OTHER -> <<"lock_registry", "closure">>

Running(t) == th[t].op # "idle"

NewCall(op, h, ok) == [op |-> op, h |-> h, ok |-> ok, pc |-> 1, id |-> 0, val |-> 0]

Instr(c) == IF c.op = "idle" THEN "none" ELSE Program(c.op)[c.pc]

\* The threads that have passed their backend and are yet to take an id.
Pending == {t \in Threads : Instr(th[t]) = "lock_next_id"}

\* An allocator that hands out the id without advancing the counter.
LockNextId_stale(t, c) ==
    /\ Instr(c) = "lock_next_id"
    /\ id_lock = "none"
    /\ ~Running(t) => next_id + Cardinality(Pending) <= MaxId
    /\ id_lock' = t
    /\ th' = [th EXCEPT ![t] = [c EXCEPT !.id = next_id, !.pc = @ + 1]]
    /\ UNCHANGED <<regVars, reg_lock, evalVars, callerVars>>

\* Thread t, in call c, takes the COUNTER_NEXT_ID mutex and the next id.  (A
\* thread entering a call takes its first step with it: c is then the new call.)
LockNextId(t, c) ==
    /\ Instr(c) = "lock_next_id"
    /\ id_lock = "none"
    /\ ~Running(t) => next_id + Cardinality(Pending) <= MaxId
    /\ id_lock' = t
    /\ next_id' = next_id + 1
    /\ th' = [th EXCEPT ![t] = [c EXCEPT !.id = next_id, !.pc = @ + 1]]
    /\ UNCHANGED <<registry, last, issued, track, retains, releases, frees,
                   removals, incs, reg_lock, evalVars, callerVars>>

\* The backend answers: on failure the call returns -1, dropping the id guard
\* if it holds it.
Backend(t, c) ==
    /\ Instr(c) = "backend"
    /\ ~Running(t) => (c.ok => next_id + Cardinality(Pending) <= MaxId)
    /\ IF c.ok
       THEN /\ th' = [th EXCEPT ![t] = [c EXCEPT !.pc = @ + 1]]
            /\ UNCHANGED id_lock
       ELSE /\ th' = [th EXCEPT ![t] = Idle]
            /\ id_lock' = IF id_lock = t THEN "none" ELSE id_lock
    /\ UNCHANGED <<regVars, reg_lock, evalVars, callerVars>>

\* A with_registry that does not wait for the mutex.
LockRegistry_nowait(t, c) ==
    /\ Instr(c) = "lock_registry"
    /\ c.op = "increment" /\ LiveKind(registry, c.h, "Counter")
          => registry[AsUsize(c.h)].handle.count < MaxCount
    /\ reg_lock' = t
    /\ th' = [th EXCEPT ![t] = [c EXCEPT !.pc = @ + 1]]
    /\ UNCHANGED <<regVars, id_lock, evalVars, callerVars>>

\* Thread t takes the COUNTER_REGISTRY mutex: the lock() of with_registry.
LockRegistry(t, c) ==
    /\ Instr(c) = "lock_registry"
    /\ reg_lock = "none"
    /\ c.op = "retain" /\ Live(registry, c.h)
          => registry[AsUsize(c.h)].ref_count <= MaxRetain
    /\ c.op = "increment" /\ LiveKind(registry, c.h, "Counter")
          => registry[AsUsize(c.h)].handle.count < MaxCount
    /\ reg_lock' = t
    /\ th' = [th EXCEPT ![t] = [c EXCEPT !.pc = @ + 1]]
    /\ UNCHANGED <<regVars, id_lock, evalVars, callerVars>>

\* The closure of a create runs and with_registry drops the guard.
InsertEntry(t) ==
    /\ Instr(th[t]) = "insert"
    /\ registry' = Insert(registry, th[t].id, NewEntry(HandleOf(th[t].op)))
    /\ reg_lock' = IF reg_lock = t THEN "none" ELSE reg_lock
    /\ th' = [th EXCEPT ![t].pc = @ + 1]
    /\ UNCHANGED <<next_id, last, issued, track, retains, releases, frees,
                   removals, incs, id_lock, evalVars, callerVars>>

\* The closure of a call on a handle runs, with_registry drops the guard and
\* the call returns.
RunClosure(t) ==
    /\ Instr(th[t]) = "closure"
    /\ Effect(th[t].op, th[t].h, ClosureOf(th[t].op, registry, AsUsize(th[t].h)))
    /\ reg_lock' = IF reg_lock = t THEN "none" ELSE reg_lock
    /\ th' = [th EXCEPT ![t] = Idle]
    /\ UNCHANGED <<next_id, last, issued, track, id_lock, evalVars, callerVars>>

\* The closure of increment finds its counter and reads the count; on a handle
\* that is no live counter it prints its diagnostic and the call is over.
LoadCount(t) ==
    LET c == th[t]
    IN  /\ Instr(c) = "load"
        /\ IF LiveKind(registry, c.h, "Counter")
           THEN /\ th' = [th EXCEPT ![t].val = registry[AsUsize(c.h)].handle.count,
                                    ![t].pc = @ + 1]
                /\ UNCHANGED <<regVars, reg_lock>>
           ELSE /\ Effect("increment", c.h, increment_closure(registry, AsUsize(c.h)))
                /\ reg_lock' = IF reg_lock = t THEN "none" ELSE reg_lock
                /\ th' = [th EXCEPT ![t] = Idle]
                /\ UNCHANGED <<next_id, last, issued, track>>
        /\ UNCHANGED <<id_lock, evalVars, callerVars>>

\* The closure writes the count back, one higher; with_registry drops the
\* guard and the call returns.
StoreCount(t) ==
    LET c == th[t]
    IN  /\ Instr(c) = "store"
        /\ Effect("increment", c.h,
                  Out([registry EXCEPT ![AsUsize(c.h)].handle.count = c.val + 1],
                      0, NoDiag))
        /\ reg_lock' = IF reg_lock = t THEN "none" ELSE reg_lock
        /\ th' = [th EXCEPT ![t] = Idle]
        /\ UNCHANGED <<next_id, last, issued, track, id_lock, evalVars, callerVars>>

\* A create returns its id and drops the id guard.
ReturnId(t) ==
    /\ Instr(th[t]) = "return"
    /\ issued' = issued \cup {th[t].id}
    /\ id_lock' = IF id_lock = t THEN "none" ELSE id_lock
    /\ th' = [th EXCEPT ![t] = Idle]
    /\ UNCHANGED <<registry, next_id, last, track, retains, releases, frees,
                   removals, incs, reg_lock, evalVars, callerVars>>

(***************************************************************************)
(* The evaluator: values (src/executor.rs)                                 *)
(***************************************************************************)
\* Int carries an i64; the model keeps the two's-complement width, IntBits
\* bits instead of 64.
IntMax == 2 ^ (IntBits - 1) - 1

IntMin == - (2 ^ (IntBits - 1))

InRange(n) == IntMin <= n /\ n <= IntMax

\* The wrapping result of the release build.
WrapInt(n) == ((n - IntMin) % (2 ^ IntBits)) + IntMin

Abs(n) == IF n < 0 THEN -n ELSE n

\* i64 division truncates toward zero.
TruncDiv(a, b) ==
    IF (a < 0) = (b < 0) THEN Abs(a) \div Abs(b) ELSE - (Abs(a) \div Abs(b))

RECURSIVE Gcd(_, _)
Gcd(a, b) == IF b = 0 THEN a ELSE Gcd(b, a % b)

\* Float carries an f64: a finite value n/d in lowest terms (rounding is not
\* modelled), an infinity of sign n, or NaN.
Fin(n, d) ==
    LET g == Gcd(Abs(n), Abs(d))
        s == IF d < 0 THEN -1 ELSE 1
    IN  [c |-> "fin", n |-> s * (n \div g), d |-> s * (d \div g)]

Inf(s) == [c |-> "inf", n |-> s, d |-> 0]

NaN == [c |-> "nan", n |-> 0, d |-> 0]

Sign(f) == IF f.n > 0 THEN 1 ELSE IF f.n < 0 THEN -1 ELSE 0

f64_add(a, b) ==
    IF a.c = "nan" \/ b.c = "nan" THEN NaN
    ELSE IF a.c = "inf" THEN (IF b.c = "inf" /\ b.n # a.n THEN NaN ELSE a)
    ELSE IF b.c = "inf" THEN b
    ELSE Fin(a.n * b.d + b.n * a.d, a.d * b.d)

f64_sub(a, b) == f64_add(a, [b EXCEPT !.n = - b.n])

f64_mul(a, b) ==
    IF a.c = "nan" \/ b.c = "nan" THEN NaN
    ELSE IF a.c = "inf" \/ b.c = "inf"
         THEN (IF Sign(a) * Sign(b) = 0 THEN NaN ELSE Inf(Sign(a) * Sign(b)))
    ELSE Fin(a.n * b.n, a.d * b.d)

\* lf / rf, reached with rf == 0.0 false.
f64_div(a, b) ==
    IF a.c = "nan" \/ b.c = "nan" THEN NaN
    ELSE IF a.c = "inf"
         THEN (IF b.c = "inf" THEN NaN ELSE Inf(Sign(a) * Sign(b)))
    ELSE IF b.c = "inf" THEN Fin(0, 1)
    ELSE Fin(a.n * b.d, a.d * b.n)

\* lf == rf of f64: NaN equals nothing.
f64_eq(a, b) == a.c # "nan" /\ b.c # "nan" /\ a = b

\* lf < rf of f64.
f64_lt(a, b) ==
    IF a.c = "nan" \/ b.c = "nan" THEN FALSE
    ELSE IF a.c = "inf" THEN a.n = -1 /\ a # b
    ELSE IF b.c = "inf" THEN b.n = 1
    ELSE a.n * b.d < b.n * a.d

\* RelType
Int64(v) == [t |-> "Int", i |-> v]

Float(v) == [t |-> "Float", f |-> v]

Bool(v) == [t |-> "Bool", b |-> v]

Str(v) == [t |-> "Str", s |-> v]

Void == [t |-> "Void"]

\* #[derive(PartialEq)] on RelType: the same variant and == on the payload.
RelTypeEq(l_val, r_val) ==
    /\ l_val.t = r_val.t
    /\ CASE l_val.t = "Int" -> l_val.i = r_val.i
         [] l_val.t = "Float" -> f64_eq(l_val.f, r_val.f)
         [] l_val.t = "Bool" -> l_val.b = r_val.b
         [] l_val.t = "Str" -> l_val.s = r_val.s
         [] OTHER -> TRUE

\* ExecResult, and the two ways evaluate can fail to come back with one: a
\* panic unwinding through it, and a loop still running after MaxIter rounds.
Value(val) == [kind |-> "Value", val |-> val]

ReturnBlockInfo(val) == [kind |-> "ReturnBlockInfo", val |-> val]

Fault(err) == [kind |-> "Fault", err |-> err]

Panic(msg) == [kind |-> "Panic", msg |-> msg]

OutOfFuel == [kind |-> "OutOfFuel"]

Unwinds(res) == res.kind \in {"Panic", "OutOfFuel"}

\* crate::ast::Node, as the match in evaluate takes it apart.
IntLiteral(v) == [k |-> "IntLiteral", i |-> v]

FloatLiteral(v) == [k |-> "FloatLiteral", f |-> v]

BoolLiteral(v) == [k |-> "BoolLiteral", b |-> v]

StringLiteral(v) == [k |-> "StringLiteral", s |-> v]

Identifier(name) == [k |-> "Identifier", name |-> name]

Assign(name, expr_node) == [k |-> "Assign", name |-> name, expr |-> expr_node]

Add(l, r) == [k |-> "Add", l |-> l, r |-> r]

Sub(l, r) == [k |-> "Sub", l |-> l, r |-> r]

Mul(l, r) == [k |-> "Mul", l |-> l, r |-> r]

Div(l, r) == [k |-> "Div", l |-> l, r |-> r]

Eq(l, r) == [k |-> "Eq", l |-> l, r |-> r]

Lt(l, r) == [k |-> "Lt", l |-> l, r |-> r]

None == [k |-> "None"]

If(cond, then_br, else_br) ==
    [k |-> "If", cond |-> cond, then_br |-> then_br, else_br |-> else_br]

While(cond, body) == [k |-> "While", cond |-> cond, body |-> body]

Block(nodes) == [k |-> "Block", nodes |-> nodes]

Return(val_node) == [k |-> "Return", val |-> val_node]

(***************************************************************************)
(* The evaluator: evaluate and do_math                                     *)
(***************************************************************************)
EmptyMemory == <<>>

\* self.memory.insert(name, val)
MemInsert(mem, name, val) ==
    [n \in DOMAIN mem \cup {name} |-> IF n = name THEN val ELSE mem[n]]

\* What evaluate carries along: the store, the loop rounds MaxIter still
\* allows, and the history of the run.
NoProbe ==
    [faulted |-> FALSE, first_fault |-> "", evaluated_after_fault |-> FALSE,
     wrote_after_fault |-> FALSE, trace |-> <<>>, prior |-> <<>>]

StartOf(mem, checks) ==
    [memory |-> mem, fuel |-> MaxIter, checks |-> checks, probe |-> NoProbe]

Done(res, st) == [res |-> res, st |-> st]

\* evaluate is entered for one more node.
Enter(st) ==
    [st EXCEPT !.probe.evaluated_after_fault = @ \/ st.probe.faulted]

\* An ExecResult::Fault is made.
Raise(err, st) ==
    Done(Fault(err),
         [st EXCEPT !.probe.faulted = TRUE,
                    !.probe.first_fault = IF st.probe.faulted THEN @ ELSE err])

Write(name, val, st) ==
    [st EXCEPT !.memory = MemInsert(@, name, val),
               !.probe.wrote_after_fault = @ \/ st.probe.faulted]

\* Rust's integer arithmetic: out of range, the debug build panics and the
\* release build wraps; i64::MIN / -1 panics in both.
OverflowMessage(op) ==
    CASE op = "+" -> "attempt to add with overflow"
      [] op = "-" -> "attempt to subtract with overflow"
      [] OTHER -> "attempt to multiply with overflow"

int_math(op, li, ri, st) ==
    LET raw == CASE op = "+" -> li + ri
                 [] op = "-" -> li - ri
                 [] op = "*" -> li * ri
                 [] OTHER -> 0
    IN  IF op = "/"
        THEN IF ri = 0 THEN Raise("Division by zero", st)
             ELSE IF li = IntMin /\ ri = -1
                  THEN Done(Panic("attempt to divide with overflow"), st)
             ELSE Done(Value(Int64(TruncDiv(li, ri))), st)
        ELSE IF InRange(raw) THEN Done(Value(Int64(raw)), st)
             ELSE IF st.checks
                  THEN Done(Panic(OverflowMessage(op)), st)
             ELSE Done(Value(Int64(WrapInt(raw))), st)

float_math_ieee(op, lf, rf, st) ==
    CASE op = "+" -> Done(Value(Float(f64_add(lf, rf))), st)
      [] op = "-" -> Done(Value(Float(f64_sub(lf, rf))), st)
      [] op = "*" -> Done(Value(Float(f64_mul(lf, rf))), st)
      [] OTHER -> IF f64_eq(rf, Fin(0, 1))
                  THEN Done(Value(Float(IF Sign(lf) = 0 THEN NaN ELSE Inf(Sign(lf)))), st)
                  ELSE Done(Value(Float(f64_div(lf, rf))), st)

float_math(op, lf, rf, st) ==
    CASE op = "+" -> Done(Value(Float(f64_add(lf, rf))), st)
      [] op = "-" -> Done(Value(Float(f64_sub(lf, rf))), st)
      [] op = "*" -> Done(Value(Float(f64_mul(lf, rf))), st)
      [] OTHER -> IF f64_eq(rf, Fin(0, 1))
                  THEN Raise("Division by zero", st)
                  ELSE Done(Value(Float(f64_div(lf, rf))), st)

OpOf(k) ==
    CASE k = "Add" -> "+" [] k = "Sub" -> "-" [] k = "Mul" -> "*" [] OTHER -> "/"

IsValueOf(res, t) == res.kind = "Value" /\ res.val.t = t

\* The arm `(Fault(err), _) | (_, Fault(err))` of the three binary matches.
EitherFault(lv, rv) ==
    IF lv.kind = "Fault" THEN lv ELSE rv

\* History: one evaluation a node made of a child, and one whole evaluation
\* of a node with the store before and after it.
Kid(n, e) == [node |-> n, res |-> e.res, mem |-> e.st.memory]

WithKids(e, kids) == [res |-> e.res, st |-> e.st, kids |-> kids]

Exit(node, pre, e) ==
    Done(e.res,
         [e.st EXCEPT !.probe.trace =
             Append(@, [node |-> node, pre |-> pre, kids |-> e.kids,
                        res |-> e.res, post |-> e.st.memory])])

Lookup_default(name, st) ==
    IF name \in DOMAIN st.memory
    THEN Done(Value(st.memory[name]), st)
    ELSE Done(Value(Int64(0)), st)

\* Node::Identifier
Lookup(name, st) ==
    IF name \in DOMAIN st.memory
    THEN Done(Value(st.memory[name]), st)
    ELSE Raise("Undefined identifier", st)

AssignOutcome_reraise(name, e) ==
    IF e.res.kind \in {"Value", "ReturnBlockInfo"}
    THEN Done(e.res, Write(name, e.res.val, e.st))
    ELSE e

\* Node::Assign, once the expression has come back with e.
AssignOutcome(name, e) ==
    IF e.res.kind \in {"Value", "ReturnBlockInfo"}
    THEN Done(Value(e.res.val), Write(name, e.res.val, e.st))
    ELSE e

\* The match of Node::Eq on the two results.
EqOutcome(lv, rv, st) ==
    IF lv.kind = "Value" /\ rv.kind = "Value"
    THEN Done(Value(Bool(RelTypeEq(lv.val, rv.val))), st)
    ELSE IF lv.kind = "Fault" \/ rv.kind = "Fault"
         THEN Done(EitherFault(lv, rv), st)
    ELSE Raise("Invalid Eq semantics", st)

LtOutcome_le(lv, rv, st) ==
    IF IsValueOf(lv, "Int") /\ IsValueOf(rv, "Int")
    THEN Done(Value(Bool(lv.val.i <= rv.val.i)), st)
    ELSE IF IsValueOf(lv, "Float") /\ IsValueOf(rv, "Float")
         THEN Done(Value(Bool(f64_lt(lv.val.f, rv.val.f))), st)
    ELSE IF lv.kind = "Fault" \/ rv.kind = "Fault"
         THEN Done(EitherFault(lv, rv), st)
    ELSE Raise("Invalid Lt semantics", st)

\* The match of Node::Lt on the two results.
LtOutcome(lv, rv, st) ==
    IF IsValueOf(lv, "Int") /\ IsValueOf(rv, "Int")
    THEN Done(Value(Bool(lv.val.i < rv.val.i)), st)
    ELSE IF IsValueOf(lv, "Float") /\ IsValueOf(rv, "Float")
         THEN Done(Value(Bool(f64_lt(lv.val.f, rv.val.f))), st)
    ELSE IF lv.kind = "Fault" \/ rv.kind = "Fault"
         THEN Done(EitherFault(lv, rv), st)
    ELSE Raise("Invalid Lt semantics", st)

IfBranch_swapped(node, cv) ==
    IF ~IsValueOf(cv, "Bool") THEN None
    ELSE IF cv.val.b /\ node.else_br.k # "None" THEN node.else_br
    ELSE node.then_br

\* Node::If: the branch a Bool condition selects; None stands for no branch.
IfBranch(node, cv) ==
    IF ~IsValueOf(cv, "Bool") THEN None
    ELSE IF cv.val.b THEN node.then_br
    ELSE node.else_br

WhileBodyStops_noreturn(res) == Unwinds(res) \/ res.kind = "Fault"

\* Node::While: the body results that leave the loop.
WhileBodyStops(res) ==
    Unwinds(res) \/ res.kind \in {"ReturnBlockInfo", "Fault"}

WhileExit_cond == Value(Bool(FALSE))

\* Node::While: the result after `break`.
WhileExit == Value(Void)

BlockGoesOn_pastreturn(res) == res.kind \in {"Value", "ReturnBlockInfo"}

\* Node::Block: the child results after which the loop goes on.
BlockGoesOn(res) == res.kind = "Value"

\* Node::Return, once the value node has come back with e.
ReturnOutcome(e) ==
    IF e.res.kind = "Value" THEN Done(ReturnBlockInfo(e.res.val), e.st) ELSE e

RECURSIVE evaluate(_, _), do_math(_, _, _, _), eval_while(_, _, _, _),
          eval_block(_, _, _, _, _)

\* Both operands are evaluated, then the pair is matched.
do_math(l, r, op, st) ==
    LET lv == evaluate(l, st)
        rv == evaluate(r, lv.st)
        both == <<Kid(l, lv), Kid(r, rv)>>
    IN  IF Unwinds(lv.res) THEN WithKids(lv, <<Kid(l, lv)>>)
        ELSE IF Unwinds(rv.res) THEN WithKids(rv, both)
        ELSE IF IsValueOf(lv.res, "Int") /\ IsValueOf(rv.res, "Int")
             THEN WithKids(int_math(op, lv.res.val.i, rv.res.val.i, rv.st), both)
        ELSE IF IsValueOf(lv.res, "Float") /\ IsValueOf(rv.res, "Float")
             THEN WithKids(float_math(op, lv.res.val.f, rv.res.val.f, rv.st), both)
        ELSE IF lv.res.kind = "Fault" \/ rv.res.kind = "Fault"
             THEN WithKids(Done(EitherFault(lv.res, rv.res), rv.st), both)
        ELSE WithKids(Raise("Mathematical type mismatch", rv.st), both)

\* The loop of Node::While; kids are the evaluations it has made so far.
eval_while(cond, body, st, kids) ==
    LET cv == evaluate(cond, st)
        bv == evaluate(body, cv.st)
        kc == Append(kids, Kid(cond, cv))
        kb == Append(kc, Kid(body, bv))
    IN  IF Unwinds(cv.res) \/ cv.res.kind = "Fault" THEN WithKids(cv, kc)
        ELSE IF IsValueOf(cv.res, "Bool") /\ cv.res.val.b
             THEN IF cv.st.fuel = 0 THEN WithKids(Done(OutOfFuel, cv.st), kc)
                  ELSE IF WhileBodyStops(bv.res) THEN WithKids(bv, kb)
                  ELSE eval_while(cond, body, [bv.st EXCEPT !.fuel = @ - 1], kb)
        ELSE IF IsValueOf(cv.res, "Bool") THEN WithKids(Done(WhileExit, cv.st), kc)
        ELSE WithKids(Raise("While condition not a boolean", cv.st), kc)

\* The loop of Node::Block, from child i on.
eval_block(nodes, i, last_val, st, kids) ==
    IF i > Len(nodes) THEN WithKids(Done(Value(last_val), st), kids)
    ELSE LET r == evaluate(nodes[i], st)
             ks == Append(kids, Kid(nodes[i], r))
         IN  IF BlockGoesOn(r.res)
             THEN eval_block(nodes, i + 1, r.res.val, r.st, ks)
             ELSE WithKids(r, ks)

\* The match of evaluate on the node.
eval_node(node, st) ==
    LET k == node.k
    IN  CASE k = "IntLiteral" -> WithKids(Done(Value(Int64(node.i)), st), <<>>)
          [] k = "FloatLiteral" -> WithKids(Done(Value(Float(node.f)), st), <<>>)
          [] k = "BoolLiteral" -> WithKids(Done(Value(Bool(node.b)), st), <<>>)
          [] k = "StringLiteral" -> WithKids(Done(Value(Str(node.s)), st), <<>>)
          [] k = "Identifier" -> WithKids(Lookup(node.name, st), <<>>)
          [] k = "Assign" ->
                LET e == evaluate(node.expr, st)
                IN  WithKids(AssignOutcome(node.name, e), <<Kid(node.expr, e)>>)
          [] k \in {"Add", "Sub", "Mul", "Div"} ->
                do_math(node.l, node.r, OpOf(k), st)
          [] k = "Eq" ->
                LET lv == evaluate(node.l, st)
                    rv == evaluate(node.r, lv.st)
                    both == <<Kid(node.l, lv), Kid(node.r, rv)>>
                IN  IF Unwinds(lv.res) THEN WithKids(lv, <<Kid(node.l, lv)>>)
                    ELSE IF Unwinds(rv.res) THEN WithKids(rv, both)
                    ELSE WithKids(EqOutcome(lv.res, rv.res, rv.st), both)
          [] k = "Lt" ->
                LET lv == evaluate(node.l, st)
                    rv == evaluate(node.r, lv.st)
                    both == <<Kid(node.l, lv), Kid(node.r, rv)>>
                IN  IF Unwinds(lv.res) THEN WithKids(lv, <<Kid(node.l, lv)>>)
                    ELSE IF Unwinds(rv.res) THEN WithKids(rv, both)
                    ELSE WithKids(LtOutcome(lv.res, rv.res, rv.st), both)
          [] k = "If" ->
                LET cv == evaluate(node.cond, st)
                    br == IfBranch(node, cv.res)
                    bv == evaluate(br, cv.st)
                IN  IF Unwinds(cv.res) \/ cv.res.kind = "Fault"
                    THEN WithKids(cv, <<Kid(node.cond, cv)>>)
                    ELSE IF ~IsValueOf(cv.res, "Bool")
                         THEN WithKids(Raise("If condition not a boolean", cv.st),
                                       <<Kid(node.cond, cv)>>)
                    ELSE IF br.k = "None"
                         THEN WithKids(Done(Value(Void), cv.st),
                                       <<Kid(node.cond, cv)>>)
                    ELSE WithKids(bv, <<Kid(node.cond, cv), Kid(br, bv)>>)
          [] k = "While" -> eval_while(node.cond, node.body, st, <<>>)
          [] k = "Block" -> eval_block(node.nodes, 1, Void, st, <<>>)
          [] OTHER ->
                LET e == evaluate(node.val, st)
                IN  WithKids(ReturnOutcome(e), <<Kid(node.val, e)>>)

\* ExecutionEngine::evaluate(node)
evaluate(node, st0) == Exit(node, st0.memory, eval_node(node, Enter(st0)))

(***************************************************************************)
(* The evaluator: execute and its report                                   *)
(***************************************************************************)
bool_to_string(b) == IF b THEN "true" ELSE "false"

\* The digits of rem/d after the point, at most `left` of them.
RECURSIVE FracDigits(_, _, _)
FracDigits(rem, d, left) ==
    IF rem = 0 \/ left = 0 THEN ""
    ELSE ToString((rem * 10) \div d) \o FracDigits((rem * 10) % d, d, left - 1)

\* The significant digits {:?} prints of an f64 at most.
FloatDigits == 16

\* {:?} of an f64.
f64_debug(f) ==
    CASE f.c = "nan" -> "NaN"
      [] f.c = "inf" -> IF f.n < 0 THEN "-inf" ELSE "inf"
      [] OTHER ->
            LET whole == Abs(f.n) \div f.d
                rem == Abs(f.n) % f.d
            IN  (IF f.n < 0 THEN "-" ELSE "") \o ToString(whole) \o "."
                \o (IF rem = 0 THEN "0" ELSE FracDigits(rem, f.d, FloatDigits))

\* impl Display for RelType
Display(val) ==
    CASE val.t = "Int" -> ToString(val.i) \o " (i64)"
      [] val.t = "Float" -> f64_debug(val.f) \o " (f64)"
      [] val.t = "Bool" -> bool_to_string(val.b) \o " (bool)"
      [] val.t = "Str" -> "\"" \o val.s \o "\" (String)"
      [] OTHER -> "void"

\* The names programs use, in the order of String's Ord.
Names == <<"x", "y">>

\* a < b of String
NameLess(a, b) ==
    \E i, j \in DOMAIN Names : Names[i] = a /\ Names[j] = b /\ i < j

\* self.memory.keys().collect(): the keys, in whatever order the HashMap
\* iterates.
KeyOrders(mem) ==
    {s \in [1 .. Cardinality(DOMAIN mem) -> DOMAIN mem] :
        \A i, j \in DOMAIN s : i # j => s[i] # s[j]}

RECURSIVE InsertKey(_, _)
InsertKey(sorted, k) ==
    IF sorted = <<>> THEN <<k>>
    ELSE IF NameLess(k, Head(sorted)) THEN <<k>> \o sorted
    ELSE <<Head(sorted)>> \o InsertKey(Tail(sorted), k)

sort_none(keys) == keys

\* keys.sort()
RECURSIVE sort(_)
sort(keys) ==
    IF keys = <<>> THEN <<>> ELSE InsertKey(sort(Tail(keys)), Head(keys))

\* One entry of mem_str; a Void binding reaches unreachable!().
MemEntry(k, v) ==
    CASE v.t = "Str" -> k \o " = \"" \o v.s \o "\""
      [] v.t = "Float" -> k \o " = " \o f64_debug(v.f)
      [] v.t = "Int" -> k \o " = " \o ToString(v.i)
      [] OTHER -> k \o " = " \o bool_to_string(v.b)

RECURSIVE Join(_, _, _)
Join(keys, mem, i) ==
    IF i > Len(keys) THEN ""
    ELSE (IF i > 1 THEN ", " ELSE "") \o MemEntry(keys[i], mem[keys[i]])
         \o Join(keys, mem, i + 1)

Rendered_listing(res, mem, keys) ==
    IF \E n \in DOMAIN mem : mem[n].t = "Void" THEN [panic |-> TRUE, out |-> ""]
    ELSE [panic |-> FALSE,
          out |-> (IF res.kind = "Fault" THEN "Fault: " \o res.err
                   ELSE "Return: " \o Display(res.val))
                  \o (IF DOMAIN mem = {} THEN ""
                      ELSE ", Memory: " \o Join(sort(keys), mem, 1))]

\* What execute renders once evaluate has come back with res and the store.
Rendered(res, mem, keys) ==
    IF res.kind = "Fault" THEN [panic |-> FALSE, out |-> "Fault: " \o res.err]
    ELSE IF DOMAIN mem = {}
         THEN [panic |-> FALSE, out |-> "Return: " \o Display(res.val)]
    ELSE IF \E n \in DOMAIN mem : mem[n].t = "Void"
         THEN [panic |-> TRUE, out |-> ""]
    ELSE [panic |-> FALSE,
          out |-> "Return: " \o Display(res.val) \o ", Memory: "
                  \o Join(sort(keys), mem, 1)]

clear_none(mem) == mem

\* self.memory.clear()
clear(mem) == EmptyMemory

\* ExecutionEngine::execute(root): clear the store, evaluate, render.  A
\* panic leaves no report; a loop that does not end within MaxIter rounds is
\* a call that has not returned.
execute(ast) ==
    LET e == evaluate(ast, StartOf(clear(memory), overflow_checks))
    IN  /\ status # "panicked"
        /\ e.res.kind # "OutOfFuel"
        /\ root' = ast
        /\ memory' = e.st.memory
        /\ probe' = [e.st.probe EXCEPT !.prior = memory]
        /\ \E keys \in KeyOrders(e.st.memory) :
              LET r == Rendered(e.res, e.st.memory, keys)
              IN  IF e.res.kind = "Panic" \/ r.panic
                  THEN status' = "panicked" /\ report' = ""
                  ELSE status' = "returned" /\ report' = r.out
        /\ UNCHANGED <<regVars, concVars, callerVars, overflow_checks>>

(***************************************************************************)
(* Native dispatch                                                         *)
(*                                                                         *)
(* RegistryModule::handle is the registry's NativeModule: it hands every   *)
(* call to the dispatch entry point, CoreBridge.handle.  The entry point   *)
(* itself lives in natives/bridge, outside src/natives/registry.rs; its    *)
(* resolution follows the specification's description of it (section 4.3): *)
(* a call is resolved to one registry operation, or fails with "unknown    *)
(* native function".                                                       *)
(***************************************************************************)
NoCall == [module |-> "", func_name |-> "", args |-> <<>>, to |-> "", fault |-> "",
           seq |-> 0]

NoHandled == [func_name |-> "", args |-> <<>>]

UnknownNative == "unknown native function"

\* The function names the entry point knows under the module "registry":
\* the registry's operations on one handle.
BridgeFunctions == {"retain", "release", "free", "window_close", "get_value"}

Resolve(module, func_name) ==
    IF module = "registry" /\ func_name \in BridgeFunctions
    THEN func_name
    ELSE "unknown"

\* The counters a call may still raise within the bounds of the model.
WithinBounds(op, h) ==
    op = "retain" /\ Live(registry, h)
        => registry[AsUsize(h)].ref_count <= MaxRetain

CoreBridge_handle(module, func_name, args) ==
    LET op  == Resolve(module, func_name)
        h   == args[1].i
        out == ClosureOf(op, registry, AsUsize(h))
    IN  /\ WithinBounds(op, h)
        /\ native_call' = [module |-> module, func_name |-> func_name, args |-> args,
                           to |-> op,
                           fault |-> IF op = "unknown" THEN UnknownNative ELSE "",
                           seq |-> 1 - native_call.seq]
        /\ IF op = "unknown"
           THEN UNCHANGED regVars
           ELSE /\ Effect(op, h, out)
                /\ last' = Call(op, h, out.ret, out.diag)
                /\ UNCHANGED <<next_id, issued, track>>
        /\ UNCHANGED <<concVars, evalVars, render_loop>>

\* A variant that forwards under another module name.
RegistryModule_handle_renamed(func_name, args) ==
    /\ handled' = [func_name |-> func_name, args |-> args]
    /\ CoreBridge_handle("core", func_name, args)

RegistryModule_handle(func_name, args) ==
    /\ handled' = [func_name |-> func_name, args |-> args]
    /\ CoreBridge_handle("registry", func_name, args)

\* A call that reaches the entry point from another native module.
NativeCall(module, func_name, args) ==
    /\ CoreBridge_handle(module, func_name, args)
    /\ handled' = NoHandled

(***************************************************************************)
(* Specifications of the registry                                          *)
(***************************************************************************)
\* ExecutionEngine::new()
InitEngine(builds) ==
    /\ memory = EmptyMemory
    /\ root = None
    /\ report = ""
    /\ status = "new"
    /\ overflow_checks \in builds
    /\ probe = NoProbe

InitRegistry(tracking) ==
    /\ render_loop = NoLoop
    /\ handled = NoHandled
    /\ native_call = NoCall
    /\ registry = EmptyMap
    /\ next_id = 1
    /\ last = Call("none", 0, 0, NoDiag)
    /\ issued = {}
    /\ track = tracking
    /\ retains = [id \in Ids |-> 0]
    /\ releases = [id \in Ids |-> 0]
    /\ frees = [id \in Ids |-> 0]
    /\ removals = [id \in Ids |-> 0]
    /\ incs = [id \in Ids |-> 0]
    /\ th = [t \in Threads |-> Idle]
    /\ id_lock = "none"
    /\ reg_lock = "none"

\* The lifecycle calls, over every resource kind.
Init == InitRegistry(FALSE) /\ InitEngine({TRUE})

Next ==
    \/ registry_create_counter
    \/ registry_now
    \/ \E ok \in BOOLEAN : registry_create_window(ok)
    \/ \E ok \in BOOLEAN : registry_file_create(ok)
    \/ \E ok \in BOOLEAN : registry_gpu_init(ok)
    \/ \E ok \in BOOLEAN : registry_voxel_world_create(ok)
    \/ \E h \in HandleArgs : registry_retain(h)
    \/ \E h \in HandleArgs : registry_release(h)
    \/ \E h \in HandleArgs : registry_free(h)
    \/ \E h \in HandleArgs : registry_window_close(h)

Spec == Init /\ [][Next]_vars

\* The per-kind calls on the resources, live, released and never issued.
InitOps == InitRegistry(FALSE) /\ InitEngine({TRUE})

\* The colours registry_fill_color is called with.
ColorArgs == {<<0, 0, 0>>, <<300, -5, 255>>}

NextOps ==
    \/ registry_create_counter
    \/ registry_now
    \/ registry_create_window(TRUE)
    \/ registry_file_create(TRUE)
    \/ registry_gpu_init(TRUE)
    \/ registry_voxel_world_create(TRUE)
    \/ \E h \in HandleArgs : registry_release(h)
    \/ \E h \in HandleArgs : registry_increment(h)
    \/ \E h \in HandleArgs : registry_get_value(h)
    \/ \E h \in HandleArgs : registry_elapsed_ms(h, 5)
    \/ \E h \in HandleArgs, open \in BOOLEAN : registry_window_update(h, open)
    \/ \E h \in HandleArgs, io_ok \in BOOLEAN : registry_file_write(h, io_ok)
    \/ \E h \in HandleArgs, c \in ColorArgs : registry_fill_color(h, c[1], c[2], c[3])
    \/ \E h \in HandleArgs : registry_voxel_add_block(h, 1, 2, 3)
    \/ \E h \in HandleArgs, open \in BOOLEAN : registry_voxel_render_frame(h, open)
    \/ registry_dump

SpecOps == InitOps /\ [][NextOps]_vars

\* Handles that are created and removed, and every operation called on the
\* handles that were removed.
InitGone == InitRegistry(FALSE) /\ InitEngine({TRUE})

OnRemoved ==
    \E h \in Ids :
        /\ h \in issued /\ h \notin DOMAIN registry
        /\ \/ registry_retain(h)
           \/ registry_increment(h)
           \/ registry_get_value(h)
           \/ registry_elapsed_ms(h, 5)
           \/ \E open \in BOOLEAN : registry_window_update(h, open)
           \/ \E io_ok \in BOOLEAN : registry_file_write(h, io_ok)
           \/ \E c \in ColorArgs : registry_fill_color(h, c[1], c[2], c[3])
           \/ registry_voxel_add_block(h, 1, 2, 3)
           \/ \E open \in BOOLEAN : registry_voxel_render_frame(h, open)

NextGone ==
    \/ registry_create_counter
    \/ registry_now
    \/ registry_create_window(TRUE)
    \/ registry_file_create(TRUE)
    \/ registry_gpu_init(TRUE)
    \/ registry_voxel_world_create(TRUE)
    \/ \E h \in HandleArgs : registry_release(h)
    \/ \E h \in HandleArgs : registry_free(h)
    \/ \E h \in HandleArgs : registry_window_close(h)
    \/ OnRemoved

SpecGone == InitGone /\ [][NextGone]_vars

\* Entries of the kinds that have a mutating operation, and the operations
\* that change an entry.  The lifecycle calls take every handle; the per-kind
\* operations take the first handle issued or the -1 of a failed create, so
\* that the entries beside the one they change are of every kind and count.
InitFrame == InitRegistry(FALSE) /\ InitEngine({TRUE})

FrameTargets == {-1, 1}

NextFrame ==
    \/ registry_create_counter
    \/ registry_create_window(TRUE)
    \/ registry_file_create(TRUE)
    \/ registry_voxel_world_create(TRUE)
    \/ \E h \in HandleArgs : registry_retain(h)
    \/ \E h \in HandleArgs : registry_release(h)
    \/ \E h \in HandleArgs : registry_free(h)
    \/ \E h \in FrameTargets : registry_increment(h)
    \/ \E h \in FrameTargets : registry_file_write(h, TRUE)
    \/ \E h \in FrameTargets, c \in ColorArgs : registry_fill_color(h, c[1], c[2], c[3])
    \/ \E h \in FrameTargets : registry_voxel_add_block(h, 1, 2, 3)

SpecFrame == InitFrame /\ [][NextFrame]_vars


\* Retains and releases counted, on counters and windows.
InitRc == InitRegistry(TRUE) /\ InitEngine({TRUE})

NextRc ==
    \/ registry_create_counter
    \/ \E ok \in BOOLEAN : registry_create_window(ok)
    \/ \E h \in HandleArgs : registry_retain(h)
    \/ \E h \in HandleArgs : registry_release(h)
    \/ \E h \in HandleArgs : registry_free(h)
    \/ \E h \in HandleArgs : registry_window_close(h)

SpecRc == InitRc /\ [][NextRc]_vars

\* Two threads in the calls, step by step.
InitConc == InitRegistry(FALSE) /\ InitEngine({TRUE})

ConcCreates == {"create_counter", "create_window", "voxel_world_create"}

ConcCalls == {"retain", "release", "free", "window_close", "get_value"}

\* The call thread t is in, or the calls it may enter.
CallsOf(t) ==
    IF Running(t) THEN {th[t]}
    ELSE {NewCall(op, 0, ok) : op \in ConcCreates, ok \in BOOLEAN}
         \cup {NewCall(op, h, TRUE) : op \in ConcCalls, h \in Ids}

NextConc ==
    \E t \in Threads :
        \/ \E c \in CallsOf(t) : LockNextId(t, c)
        \/ \E c \in CallsOf(t) : Backend(t, c)
        \/ \E c \in CallsOf(t) : LockRegistry(t, c)
        \/ InsertEntry(t)
        \/ RunClosure(t)
        \/ ReturnId(t)

SpecConc == InitConc /\ [][NextConc]_vars

\* Threads that create counters and increment them.
InitInc == InitRegistry(FALSE) /\ InitEngine({TRUE})

IncCalls(t) ==
    IF Running(t) THEN {th[t]}
    ELSE {NewCall("create_counter", 0, TRUE)}
         \cup {NewCall(op, h, TRUE) : op \in {"increment"}, h \in HandleArgs}

NextInc ==
    \E t \in Threads :
        \/ \E c \in IncCalls(t) : LockNextId(t, c)
        \/ \E c \in IncCalls(t) : LockRegistry(t, c)
        \/ InsertEntry(t)
        \/ ReturnId(t)
        \/ LoadCount(t)
        \/ StoreCount(t)

SpecInc == InitInc /\ [][NextInc]_vars

\* Threads that only create.
InitCreate == InitRegistry(FALSE) /\ InitEngine({TRUE})

CreateOps ==
    {"create_counter", "now", "create_window", "file_create", "gpu_init",
     "voxel_world_create"}

Creates(t) ==
    IF Running(t) THEN {th[t]}
    ELSE {NewCall(op, 0, ok) : op \in CreateOps, ok \in BOOLEAN}

NextCreate ==
    \E t \in Threads :
        \/ \E c \in Creates(t) : LockNextId(t, c)
        \/ \E c \in Creates(t) : Backend(t, c)
        \/ \E c \in Creates(t) : LockRegistry(t, c)
        \/ InsertEntry(t)
        \/ ReturnId(t)

SpecCreate == InitCreate /\ [][NextCreate]_vars



\* Windows and voxel worlds, their removal, and a render loop that keeps
\* being run.
InitLoop == InitRegistry(FALSE) /\ InitEngine({TRUE})

LoopTurn == \E open \in BOOLEAN : RenderLoopStep(open)

NextLoop ==
    \/ registry_create_window(TRUE)
    \/ registry_voxel_world_create(TRUE)
    \/ \E h \in HandleArgs : registry_release(h)
    \/ \E h \in HandleArgs : registry_free(h)
    \/ \E h \in HandleArgs : registry_window_close(h)
    \/ \E op \in UpdateOps, h \in Ids : StartLoop(op, h)
    \/ LoopTurn

SpecLoop == InitLoop /\ [][NextLoop]_vars /\ WF_vars(LoopTurn)

\* Calls that reach the registry through the dispatch entry point.
InitBridge == InitRegistry(FALSE) /\ InitEngine({TRUE})

FunctionNames == BridgeFunctions \cup {"launch"}

\* Calls that come in under another module's name.
ForeignCalls == {<<"ui", "retain">>, <<"ui", "launch">>, <<"registry", "launch">>}

ArgLists == {<<Int64(h)>> : h \in HandleArgs}

NextBridge ==
    \/ registry_create_counter
    \/ \E f \in FunctionNames, args \in ArgLists : RegistryModule_handle(f, args)
    \/ \E c \in ForeignCalls, args \in ArgLists : NativeCall(c[1], c[2], args)

SpecBridge == InitBridge /\ [][NextBridge]_vars


\* The evaluator, over a set of programs.
Literals ==
    {IntLiteral(0), IntLiteral(1), IntLiteral(10), IntLiteral(-1),
     IntLiteral(IntMax), IntLiteral(IntMin), FloatLiteral(Fin(1, 1)),
     FloatLiteral(Fin(0, 1)), FloatLiteral(Fin(5, 2)), FloatLiteral(NaN),
     BoolLiteral(TRUE), BoolLiteral(FALSE), StringLiteral("a")}

\* Operands: every variant of value, a name, and operands that write, return
\* or yield Void.
Operands ==
    Literals \cup {Identifier("x"), Assign("y", IntLiteral(1)),
                   Return(IntLiteral(1)), Block(<<>>)}

BinaryKinds == {"Add", "Sub", "Mul", "Div", "Eq", "Lt"}

Binary(k, l, r) == [k |-> k, l |-> l, r |-> r]

Binaries == {Binary(k, l, r) : k \in BinaryKinds, l \in Operands, r \in Operands}

Statements ==
    {Assign(n, e) : n \in {"x", "y"},
                    e \in {IntLiteral(1), IntLiteral(2), IntLiteral(10),
                           FloatLiteral(Fin(5, 2)), StringLiteral("a"),
                           Identifier("x"), Identifier("y"), Block(<<>>),
                           Return(IntLiteral(1)),
                           Add(Identifier("x"), IntLiteral(1)),
                           Add(Assign("y", IntLiteral(1)), Identifier("x")),
                           Div(IntLiteral(10), IntLiteral(0))}}
    \cup {Identifier("x"), Return(Identifier("x")), BoolLiteral(TRUE)}

Blocks ==
    {Block(<<>>)} \cup {Block(<<s>>) : s \in Statements}
    \cup {Block(<<s1, s2>>) : s1 \in Statements, s2 \in Statements}

Branches == {Assign("x", IntLiteral(1)), Return(IntLiteral(2)), Identifier("x")}

Conditionals ==
    {If(c, t, e) : c \in Operands, t \in Branches, e \in {None} \cup Branches}

\* x = 0; while x < n { body }; tail
Bodies ==
    {Assign("x", Add(Identifier("x"), IntLiteral(1))),
     Block(<<Assign("x", Add(Identifier("x"), IntLiteral(1))),
             Assign("y", Identifier("x"))>>),
     Block(<<Assign("x", Add(Identifier("x"), IntLiteral(1))),
             If(Eq(Identifier("x"), IntLiteral(2)), Return(Identifier("x")), None)>>),
     Block(<<Assign("x", Add(Identifier("x"), IntLiteral(1))),
             Assign("y", Div(IntLiteral(1), Sub(Identifier("x"), IntLiteral(2))))>>),
     Block(<<>>)}

Loops ==
    {Block(<<Assign("x", IntLiteral(0)),
             While(Lt(Identifier("x"), IntLiteral(n)), b), t>>) :
        n \in 0 .. MaxIter + 1, b \in Bodies,
        t \in {Identifier("x"), Assign("y", IntLiteral(7))}}
    \cup {While(c, Block(<<>>)) : c \in Operands}

\* A Return under two loops, a conditional and two blocks.
NestedLoops ==
    {Block(<<Assign("x", IntLiteral(0)),
             While(Lt(Identifier("x"), IntLiteral(2)),
                   Block(<<While(BoolLiteral(TRUE),
                                 If(c, Return(IntLiteral(10)), Return(IntLiteral(2)))),
                           Assign("x", Add(Identifier("x"), IntLiteral(1)))>>)),
             t>>) :
        c \in {BoolLiteral(TRUE), BoolLiteral(FALSE), Identifier("x")},
        t \in {Identifier("x"), Assign("y", IntLiteral(7))}}

Programs == Binaries \cup Blocks \cup Conditionals \cup Loops \cup NestedLoops

\* The programs run on an engine that has run one before.
Reruns ==
    {Identifier("x"), Identifier("y"), Block(<<>>),
     Block(<<Assign("y", IntLiteral(2)), Assign("x", IntLiteral(1))>>),
     Add(Identifier("x"), Assign("y", IntLiteral(1))),
     Block(<<Assign("x", IntLiteral(10)),
             Assign("y", Div(IntLiteral(10), IntLiteral(0)))>>)}

InitEval ==
    /\ InitRegistry(FALSE)
    /\ InitEngine(BOOLEAN)

NextEval ==
    \E ast \in (IF status = "new" THEN Programs ELSE Reruns) : execute(ast)

SpecEval == InitEval /\ [][NextEval]_vars


(***************************************************************************)
(* Properties of the registry                                              *)
(***************************************************************************)
\* The resource kind each per-kind call expects.
KindOf(op) ==
    CASE op \in {"increment", "get_value"} -> "Counter"
      [] op = "elapsed_ms" -> "Timestamp"
      [] op = "file_write" -> "File"
      [] op \in {"fill_color", "window_update"} -> "Window"
      [] op \in {"voxel_add_block", "voxel_render_frame"} -> "VoxelWorld"

KindOps ==
    {"increment", "get_value", "elapsed_ms", "file_write", "fill_color",
     "window_update", "voxel_add_block", "voxel_render_frame"}

\* C1: every entry in the table has ref_count >= 1, and only issued handles
\* are in the table: a release to zero removes the entry in the same step, so
\* no state shows an entry whose ref_count is 0.
C1_RefCountPositive ==
    /\ DOMAIN registry \subseteq issued
    /\ \A id \in DOMAIN registry : registry[id].ref_count >= 1

\* A release has just taken an entry to zero and out of the table, while
\* another entry is held twice.
C1_Witness ==
    /\ last.op = "release"
    /\ last.h \in issued
    /\ ~Live(registry, last.h)
    /\ \E id \in DOMAIN registry : registry[id].ref_count >= 2

\* C2: a successful create of any kind returns a handle >= 1 that no create
\* returned before and that is greater than every handle returned before.
C2_HandlesStrictlyIncrease ==
    [][(last'.op \in CreateOps /\ last'.ret # -1)
          => /\ last'.ret >= 1
             /\ last'.ret \notin issued
             /\ \A g \in issued : g < last'.ret
             /\ issued' = issued \cup {last'.ret}
             /\ Live(registry', last'.ret)]_vars

\* Handle 2 is returned after handle 1 was issued and removed.
C2_Witness ==
    /\ last.op \in CreateOps
    /\ last.ret = 2
    /\ 1 \in issued
    /\ ~Live(registry, 1)

\* C3 as stated: once a handle has had N >= 1 retains and N releases (and no
\* free), its entry is out of the table.
C3_Original ==
    \A h \in issued :
        (frees[h] = 0 /\ retains[h] >= 1 /\ releases[h] = retains[h])
            => ~Live(registry, h)

\* C3 amended: with no free, the entry of a handle is in the table as long as
\* its releases do not exceed its retains, and it is out of the table, removed
\* exactly once, from the release that makes them N + 1 against N retains.
C3_Balanced ==
    \A h \in issued :
        frees[h] = 0 =>
            /\ releases[h] <= retains[h] + 1
            /\ Live(registry, h) <=> releases[h] <= retains[h]
            /\ Live(registry, h) => removals[h] = 0
            /\ ~Live(registry, h) => removals[h] = 1

\* A handle retained once and released twice: its entry is gone.
C3_Witness ==
    \E h \in issued :
        /\ frees[h] = 0
        /\ retains[h] >= 1
        /\ releases[h] = retains[h] + 1
        /\ ~Live(registry, h)
        /\ removals[h] = 1

\* C4 as stated: a release of a handle that is not in the table prints a
\* diagnostic and changes neither the table nor the next id.
C4_ReleaseAbsentLogged ==
    [][(last'.op = "release" /\ ~Live(registry, last'.h))
          => /\ last'.diag # NoDiag
             /\ registry' = registry
             /\ next_id' = next_id]_vars

\* C5: free and window_close take the entry of a live handle out of the table
\* whatever its ref_count and leave the other entries as they are; on a handle
\* that is not in the table they change nothing and print the double-free
\* warning.
C5_FreeUnconditional ==
    [][last'.op \in {"free", "window_close"}
          => LET id == AsUsize(last'.h)
             IN  IF id \in DOMAIN registry
                 THEN /\ DOMAIN registry' = (DOMAIN registry) \ {id}
                      /\ \A k \in DOMAIN registry' : registry'[k] = registry[k]
                      /\ last'.diag = NoDiag
                 ELSE /\ registry' = registry
                      /\ last'.diag = "Warning: Double free or invalid handle"]_vars

\* window_close has removed an entry that was retained and never released.
C5_Witness ==
    /\ last.op = "window_close"
    /\ last.h \in issued
    /\ retains[last.h] >= 1
    /\ releases[last.h] = 0
    /\ frees[last.h] = 1
    /\ ~Live(registry, last.h)

\* C6: get_value on a live counter returns the number of increments applied
\* since its creation (0 at first); on a counter handle that has left the
\* table it returns -1 and prints "not found".
C6_CounterValue ==
    last.op = "get_value" =>
        /\ LiveKind(registry, last.h, "Counter")
              => /\ last.ret = incs[last.h]
                 /\ last.diag = NoDiag
        /\ (last.h \in issued /\ ~Live(registry, last.h))
              => /\ last.ret = -1
                 /\ last.diag = "Error: Counter handle not found"

\* get_value has returned 3 after three increments, next to a released handle.
C6_Witness ==
    /\ last.op = "get_value"
    /\ LiveKind(registry, last.h, "Counter")
    /\ last.ret = 3
    /\ incs[last.h] = 3
    /\ \E h \in issued : ~Live(registry, h)

\* What a per-kind call returns when it fails.
IsSentinel(call) ==
    CASE call.op \in {"get_value", "elapsed_ms"} -> call.ret = -1
      [] call.op \in {"window_update", "voxel_render_frame"} -> call.ret = FALSE
      [] OTHER -> TRUE

\* C7 as stated: a per-kind call on a handle that is absent or of another kind
\* returns its sentinel, prints a diagnostic and leaves the table as it is.
C7_BadHandleLogged ==
    [][(last'.op \in KindOps /\ ~LiveKind(registry, last'.h, KindOf(last'.op)))
          => /\ IsSentinel(last')
             /\ last'.diag # NoDiag
             /\ registry' = registry]_vars

\* C8: a create whose backend fails returns -1, leaves the table as it is and
\* advances the next id by at most one.
C8_FailedCreate ==
    [][(last'.op \in CreateOps /\ last'.diag = "Failed to create")
          => /\ last'.ret = -1
             /\ registry' = registry
             /\ issued' = issued
             /\ next_id' \in {next_id, next_id + 1}]_vars

\* A window create has failed after an id was issued: the id of the attempt
\* is consumed and the table still holds the one entry.
C8_Witness ==
    /\ last.op = "create_window"
    /\ last.ret = -1
    /\ next_id = 3
    /\ DOMAIN registry = {1}

(***************************************************************************)
(* Properties of the locking                                               *)
(***************************************************************************)
\* The mutex thread t is about to take, if any.
Wants(t) ==
    CASE Instr(th[t]) = "lock_next_id" -> "id"
      [] Instr(th[t]) = "lock_registry" -> "registry"
      [] OTHER -> "none"

Holder(l) == IF l = "id" THEN id_lock ELSE reg_lock

Blocked(t) == Wants(t) # "none" /\ Holder(Wants(t)) # "none"

\* Every thread of S waits for a mutex that a thread of S holds.
Deadlocked(S) ==
    /\ S # {}
    /\ \A t \in S : Blocked(t) /\ Holder(Wants(t)) \in S

\* C9: a thread is inside a closure on the table exactly while it holds the
\* one registry mutex, no thread waits for a mutex it holds itself, and no
\* set of threads waits in a cycle: no interleaving of the calls deadlocks.
C9_NoDeadlock ==
    /\ \A t \in Threads : (Instr(th[t]) \in {"insert", "closure"}) <=> reg_lock = t
    /\ \A t \in Threads : Wants(t) # "none" => Holder(Wants(t)) # t
    /\ \A S \in SUBSET Threads : ~Deadlocked(S)

\* A create holds the id mutex and waits for the registry mutex, which the
\* other thread holds inside the closure of window_close.
C9_Witness ==
    \E t, u \in Threads :
        /\ t # u
        /\ id_lock = t
        /\ Wants(t) = "registry"
        /\ reg_lock = u
        /\ th[u].op = "window_close"
        /\ Instr(th[u]) = "closure"

(***************************************************************************)
(* Properties of the evaluator                                             *)
(***************************************************************************)
\* C10: a fault aborts execute at once: when a run in which a node produced
\* a Fault has returned, no node was evaluated and no binding was written
\* after that Fault was produced, and the report is that fault's message.
C10_FaultAbortsAtOnce ==
    status = "returned" /\ probe.faulted
        => /\ ~probe.evaluated_after_fault
           /\ ~probe.wrote_after_fault
           /\ report = "Fault: " \o probe.first_fault

\* The history of the last execute: the evaluations of nodes, in the order
\* in which they ended.
Trace == probe.trace

Ran == status # "new" /\ Trace # <<>>

RootResult == Trace[Len(Trace)].res

RECURSIVE NoReturnIn(_), ReturnsAsStatements(_)
\* No Return anywhere in the node.
NoReturnIn(node) ==
    CASE node.k \in {"IntLiteral", "FloatLiteral", "BoolLiteral", "StringLiteral",
                     "Identifier", "None"} -> TRUE
      [] node.k = "Assign" -> NoReturnIn(node.expr)
      [] node.k \in BinaryKinds -> NoReturnIn(node.l) /\ NoReturnIn(node.r)
      [] node.k = "If" -> /\ NoReturnIn(node.cond) /\ NoReturnIn(node.then_br)
                          /\ NoReturnIn(node.else_br)
      [] node.k = "While" -> NoReturnIn(node.cond) /\ NoReturnIn(node.body)
      [] node.k = "Block" -> \A i \in DOMAIN node.nodes : NoReturnIn(node.nodes[i])
      [] OTHER -> FALSE

\* Every Return of the node is a child of a Block, a branch of an If or the
\* body of a While, all the way up.
ReturnsAsStatements(node) ==
    CASE node.k = "Block" ->
            \A i \in DOMAIN node.nodes : ReturnsAsStatements(node.nodes[i])
      [] node.k = "If" -> /\ NoReturnIn(node.cond)
                          /\ ReturnsAsStatements(node.then_br)
                          /\ ReturnsAsStatements(node.else_br)
      [] node.k = "While" -> NoReturnIn(node.cond) /\ ReturnsAsStatements(node.body)
      [] node.k = "Return" -> NoReturnIn(node.val)
      [] OTHER -> NoReturnIn(node)

\* The names bound in mem, in lexicographic order.
LiveNames(mem) == SelectSeq(Names, LAMBDA n : n \in DOMAIN mem)

\* The bindings of mem, each once, in lexicographic order of the names.
RECURSIVE Listing(_, _)
Listing(names, mem) ==
    IF names = <<>> THEN ""
    ELSE MemEntry(Head(names), mem[Head(names)])
         \o (IF Tail(names) = <<>> THEN "" ELSE ", ") \o Listing(Tail(names), mem)

\* The report of a run that ended with val and the store mem.
SuccessReport(val, mem) ==
    "Return: " \o Display(val)
    \o (IF DOMAIN mem = {} THEN "" ELSE ", Memory: " \o Listing(LiveNames(mem), mem))

\* The evaluations of Return that made an ExecResult::ReturnBlockInfo.
Returned ==
    {i \in DOMAIN Trace :
        Trace[i].node.k = "Return" /\ Trace[i].res.kind = "ReturnBlockInfo"}

\* C11: in a program whose Returns stand under Block, If and While only, once
\* a Return has produced its ReturnBlockInfo nothing else is evaluated: every
\* evaluation that ends later is an enclosing Block, If or While ending with
\* that same ReturnBlockInfo, and the report renders the returned value.
C11_ReturnUnwinds ==
    Ran /\ ReturnsAsStatements(root) =>
        \A i \in Returned :
            /\ \A j \in (i + 1) .. Len(Trace) :
                  /\ Trace[j].node.k \in {"Block", "If", "While"}
                  /\ Trace[j].res = Trace[i].res
            /\ status = "returned" =>
                  report = SuccessReport(Trace[i].res.val, memory)

\* A Return under two loops has ended both, and the blocks around them with
\* children left.
C11_Witness ==
    /\ Ran /\ ReturnsAsStatements(root) /\ status = "returned"
    /\ \E i \in Returned : \E j1, j2, j3 \in (i + 1) .. Len(Trace) :
          /\ j1 < j2 /\ j2 < j3
          /\ Trace[j1].node.k = "While" /\ Trace[j2].node.k = "Block"
          /\ Len(Trace[j2].kids) < Len(Trace[j2].node.nodes)
          /\ Trace[j3].node.k = "While"
          /\ Trace[Len(Trace)].node.k = "Block"
          /\ Len(Trace[Len(Trace)].kids) < Len(root.nodes)
    /\ report = "Return: 10 (i64), Memory: x = 0"

\* The evaluations of nodes of kind k.
EventsOf(k) == {i \in DOMAIN Trace : Trace[i].node.k = k}

\* The binding of name, or its absence.
Binding(mem, name) == IF name \in DOMAIN mem THEN <<mem[name]>> ELSE <<>>

\* Assign(name, rhs) on a Value or a ReturnBlockInfo carrying v: name is
\* bound to v in the store rhs left, and the Assign yields Value(v).
AssignBinds(ev) ==
    LET rhs == ev.kids[1]
    IN  rhs.res.kind \in {"Value", "ReturnBlockInfo"} =>
            /\ ev.res = Value(rhs.res.val)
            /\ ev.post = MemInsert(rhs.mem, ev.node.name, rhs.res.val)

\* C12 as stated: when rhs faults the fault propagates unchanged and the
\* binding of name is what it was before the Assign.
C12_Original ==
    Ran => \A i \in EventsOf("Assign") :
        LET ev == Trace[i]
        IN  /\ AssignBinds(ev)
            /\ ev.kids[1].res.kind = "Fault" =>
                  /\ ev.res = ev.kids[1].res
                  /\ Binding(ev.post, ev.node.name) = Binding(ev.pre, ev.node.name)

\* C12, amended: when rhs faults the fault propagates unchanged and the
\* Assign writes nothing: the store is as the evaluation of rhs left it.
C12_AssignFrame ==
    Ran => \A i \in EventsOf("Assign") :
        LET ev == Trace[i]
        IN  /\ AssignBinds(ev)
            /\ ev.kids[1].res.kind = "Fault" =>
                  /\ ev.res = ev.kids[1].res
                  /\ ev.post = ev.kids[1].mem

\* An Assign whose rhs bound the name and then faulted, with no write after
\* the fault: the name is bound though the Assign faulted.
C12_Witness ==
    /\ Ran /\ ~probe.wrote_after_fault
    /\ \E i \in EventsOf("Assign") :
          /\ Trace[i].kids[1].res.kind = "Fault"
          /\ Trace[i].res = Trace[i].kids[1].res
          /\ Trace[i].node.name \notin DOMAIN Trace[i].pre
          /\ Trace[i].node.name \in DOMAIN Trace[i].post

\* The evaluations of a two-operand node in which both operands came back as
\* values.
OnValues(kinds) ==
    {i \in DOMAIN Trace :
        /\ Trace[i].node.k \in kinds
        /\ Len(Trace[i].kids) = 2
        /\ Trace[i].kids[1].res.kind = "Value"
        /\ Trace[i].kids[2].res.kind = "Value"}

ZeroDivisor(b) ==
    \/ b.t = "Int" /\ b.i = 0
    \/ b.t = "Float" /\ b.f = Fin(0, 1)

\* C13: Add, Sub, Mul and Div on two values: Int with Int gives no value but
\* an Int and Float with Float gives a Float; Div by a zero of either variant
\* is the fault "Division by zero" and the only fault of a same-variant pair;
\* every other pair of variants is the fault "Mathematical type mismatch".
C13_Arithmetic ==
    Ran => \A i \in OnValues({"Add", "Sub", "Mul", "Div"}) :
        LET ev == Trace[i]
            a == ev.kids[1].res.val
            b == ev.kids[2].res.val
        IN  IF a.t = b.t /\ a.t \in {"Int", "Float"}
            THEN IF ev.node.k = "Div" /\ ZeroDivisor(b)
                 THEN ev.res = Fault("Division by zero")
                 ELSE /\ ev.res.kind # "Fault"
                      /\ ev.res.kind = "Value" => ev.res.val.t = a.t
                      /\ a.t = "Float" => ev.res.kind = "Value"
            ELSE ev.res = Fault("Mathematical type mismatch")

\* A Float divided by the Float zero has faulted.
C13_Witness ==
    /\ Ran /\ report = "Fault: Division by zero"
    /\ \E i \in OnValues({"Div"}) :
          /\ Trace[i].kids[1].res.val.t = "Float"
          /\ Trace[i].kids[2].res.val = Float(Fin(0, 1))
          /\ Trace[i].res = Fault("Division by zero")

\* The same variant and the same payload.
SameValue(a, b) == a.t = b.t /\ a = b

\* C14: Eq on two values yields Bool(true) exactly when they have the same
\* variant and the same payload, and Bool(false) otherwise, never a fault.
C14_EqStructural ==
    Ran => \A i \in OnValues({"Eq"}) :
        Trace[i].res =
            Value(Bool(SameValue(Trace[i].kids[1].res.val, Trace[i].kids[2].res.val)))

\* C15: the report of a run that ended with a value is that value followed
\* by every binding of the store, each once, in lexicographic order of the
\* names, whatever the order of the assignments.
C15_ReportSorted ==
    Ran /\ status = "returned" /\ RootResult.kind \in {"Value", "ReturnBlockInfo"}
        => report = SuccessReport(RootResult.val, memory)

\* y was assigned before x, and the report lists x before y.
C15_Witness ==
    /\ status = "returned"
    /\ root = Block(<<Assign("y", IntLiteral(2)), Assign("x", IntLiteral(1))>>)
    /\ Trace[2].node = Assign("y", IntLiteral(2))
    /\ Trace[4].node = Assign("x", IntLiteral(1))
    /\ report = "Return: 1 (i64), Memory: x = 1, y = 2"

\* { x = 10; y = 10 / 0 }
Scenario16 ==
    Block(<<Assign("x", IntLiteral(10)),
            Assign("y", Div(IntLiteral(10), IntLiteral(0)))>>)

\* C16: when the evaluation of the root faults, execute returns the fault
\* message alone, whatever the store holds; { x = 10; y = 10 / 0 } reports
\* "Fault: Division by zero" and at no point binds y.
C16_FaultReport ==
    /\ Ran /\ RootResult.kind = "Fault"
          => status = "returned" /\ report = "Fault: " \o RootResult.err
    /\ Ran /\ root = Scenario16
          => /\ report = "Fault: Division by zero"
             /\ \A i \in DOMAIN Trace : "y" \notin DOMAIN Trace[i].post

\* The scenario has run: x was bound, and the report does not list it.
C16_Witness ==
    /\ Ran /\ root = Scenario16
    /\ memory = [n \in {"x"} |-> Int64(10)]
    /\ report = "Fault: Division by zero"

\* What execute(ast) returns on an engine fresh from ExecutionEngine::new().
FreshRun(ast) == evaluate(ast, StartOf(EmptyMemory, overflow_checks))

FreshReport(ast) ==
    LET e == FreshRun(ast)
    IN  Rendered(e.res, e.st.memory,
                 CHOOSE keys \in KeyOrders(e.st.memory) : TRUE).out

\* C17: a run starts from the empty store whatever the engine held before,
\* so its report and the store it leaves are those of the same program on a
\* fresh engine, and a name only the previous program assigned is undefined.
C17_NoCarryOver ==
    Ran => /\ Trace[1].pre = EmptyMemory
           /\ memory = FreshRun(root).st.memory
           /\ status = "returned" => report = FreshReport(root)
           /\ \A i \in EventsOf("Identifier") :
                 /\ Trace[i].node.name \in DOMAIN probe.prior
                 /\ \A j \in 1 .. i : Trace[i].node.name \notin DOMAIN Trace[j].post
                 => Trace[i].res = Fault("Undefined identifier")

\* The previous program left x bound, and this one looked x up.
C17_Witness ==
    /\ Ran /\ "x" \in DOMAIN probe.prior
    /\ root = Identifier("x")
    /\ report = "Fault: Undefined identifier"

\* The evaluations that came back to their caller.
CameBack(k) == {i \in EventsOf(k) : ~Unwinds(Trace[i].res)}

IsTrue(res) == res.kind = "Value" /\ res.val = Bool(TRUE)

IsFalse(res) == res.kind = "Value" /\ res.val = Bool(FALSE)

\* C18: a While evaluates its condition before every round and its body
\* after every true condition; a faulting condition, a condition that is no
\* Bool, or a faulting body ends the loop with a fault; a false condition
\* ends it with Void, whatever the bodies yielded.
C18_While ==
    Ran => \A i \in CameBack("While") :
        LET ev == Trace[i]
            n == Len(ev.kids)
            final == ev.kids[n].res
        IN  /\ n >= 1
            /\ \A j \in 1 .. n :
                  ev.kids[j].node = IF j % 2 = 1 THEN ev.node.cond ELSE ev.node.body
            /\ \A j \in 1 .. n - 1 :
                  IF j % 2 = 1 THEN IsTrue(ev.kids[j].res)
                  ELSE ev.kids[j].res.kind = "Value"
            /\ IF n % 2 = 1
               THEN /\ ~IsTrue(final)
                    /\ ev.res = IF final.kind = "Fault" THEN final
                                ELSE IF IsFalse(final) THEN Value(Void)
                                ELSE Fault("While condition not a boolean")
               ELSE /\ final.kind \in {"Fault", "ReturnBlockInfo"}
                    /\ ev.res = final

\* A loop went two rounds or more, its last body yielded an Int, and it
\* ended on a false condition with Void.
C18_Witness ==
    /\ Ran
    /\ \E i \in CameBack("While") :
          LET ev == Trace[i]
              n == Len(ev.kids)
          IN  /\ n >= 5 /\ n % 2 = 1
              /\ IsFalse(ev.kids[n].res)
              /\ ev.kids[n - 1].res.kind = "Value"
              /\ ev.kids[n - 1].res.val.t = "Int"
              /\ ev.res = Value(Void)

\* C19: a Block evaluates its children in order, one after the other; the
\* first child that comes back with a ReturnBlockInfo or a Fault is the last
\* one evaluated and its result is the block's; otherwise the block yields
\* the value of its last child, and Void when it has none.
C19_Block ==
    Ran => \A i \in CameBack("Block") :
        LET ev == Trace[i]
            n == Len(ev.kids)
        IN  /\ n <= Len(ev.node.nodes)
            /\ \A j \in 1 .. n : ev.kids[j].node = ev.node.nodes[j]
            /\ \A j \in 1 .. n - 1 : ev.kids[j].res.kind = "Value"
            /\ n > 0 => Trace[i - 1].node = ev.kids[n].node
                        /\ Trace[i - 1].res = ev.kids[n].res
            /\ IF n > 0 /\ ev.kids[n].res.kind \in {"ReturnBlockInfo", "Fault"}
               THEN ev.res = ev.kids[n].res
               ELSE /\ n = Len(ev.node.nodes)
                    /\ ev.res = IF n = 0 THEN Value(Void) ELSE ev.kids[n].res

\* A block stopped at a child that returned, with children left.
C19_Witness ==
    /\ Ran
    /\ \E i \in CameBack("Block") :
          LET ev == Trace[i]
              n == Len(ev.kids)
          IN  /\ n > 0 /\ n < Len(ev.node.nodes)
              /\ ev.kids[n].res.kind = "ReturnBlockInfo"
              /\ ev.res = ev.kids[n].res

\* C20: an If evaluates its condition once and then at most one branch: the
\* then-branch on Bool(true), whose outcome it yields; the else-branch on
\* Bool(false), whose outcome it yields, or no branch and Void when there is
\* none; on a value of another variant no branch, and the fault "If
\* condition not a boolean".
C20_If ==
    Ran => \A i \in CameBack("If") :
        LET ev == Trace[i]
            n == Len(ev.kids)
            c == ev.kids[1].res
        IN  /\ n \in {1, 2}
            /\ ev.kids[1].node = ev.node.cond
            /\ IsTrue(c) =>
                  /\ n = 2 /\ ev.kids[2].node = ev.node.then_br
                  /\ ev.res = ev.kids[2].res
            /\ IsFalse(c) /\ ev.node.else_br.k # "None" =>
                  /\ n = 2 /\ ev.kids[2].node = ev.node.else_br
                  /\ ev.res = ev.kids[2].res
            /\ IsFalse(c) /\ ev.node.else_br.k = "None" =>
                  n = 1 /\ ev.res = Value(Void)
            /\ c.kind = "Value" /\ c.val.t # "Bool" =>
                  n = 1 /\ ev.res = Fault("If condition not a boolean")

\* An If on an Int condition has faulted with neither branch evaluated.
C20_Witness ==
    /\ Ran /\ report = "Fault: If condition not a boolean"
    /\ root.k = "If"
    /\ \E i \in CameBack("If") :
          /\ Trace[i].node = root
          /\ Trace[i].kids[1].res.kind = "Value"
          /\ Trace[i].kids[1].res.val.t = "Int"
          /\ Len(Trace[i].kids) = 1
          /\ \A j \in DOMAIN Trace :
                Trace[j].node # root.then_br /\ Trace[j].node # root.else_br

\* left < right on two values of the same numeric variant; nothing is below
\* or above NaN.
Below(a, b) ==
    IF a.t = "Int" THEN a.i < b.i
    ELSE /\ a.f.c # "nan" /\ b.f.c # "nan"
         /\ IF a.f.c = "inf" THEN a.f.n < 0 /\ a.f # b.f
            ELSE IF b.f.c = "inf" THEN b.f.n > 0
            ELSE a.f.n * b.f.d < b.f.n * a.f.d

\* C21: Lt on two values yields a Bool for an Int pair and for a Float pair,
\* true exactly when left < right, and the fault "Invalid Lt semantics" for
\* every other pair of variants.
C21_Lt ==
    Ran => \A i \in OnValues({"Lt"}) :
        LET a == Trace[i].kids[1].res.val
            b == Trace[i].kids[2].res.val
        IN  Trace[i].res = IF a.t = b.t /\ a.t \in {"Int", "Float"}
                           THEN Value(Bool(Below(a, b)))
                           ELSE Fault("Invalid Lt semantics")

\* Lt on an Int and a Float has faulted.
C21_Witness ==
    /\ Ran /\ report = "Fault: Invalid Lt semantics"
    /\ \E i \in OnValues({"Lt"}) :
          /\ Trace[i].kids[1].res.val.t = "Int"
          /\ Trace[i].kids[2].res.val.t = "Float"
          /\ Trace[i].res.kind = "Fault"

\* The Assigns to name that wrote before evaluation i ended.
WritesBefore(i, name) ==
    {j \in 1 .. i - 1 :
        /\ Trace[j].node.k = "Assign" /\ Trace[j].node.name = name
        /\ Trace[j].res.kind = "Value"}

Latest(S) == CHOOSE j \in S : \A h \in S : h <= j

\* C22: looking a name up yields the value of the latest Assign to it in
\* this run and leaves the store as it was; a name no Assign of this run has
\* written is the fault "Undefined identifier", never a value.
C22_Lookup ==
    Ran => \A i \in EventsOf("Identifier") :
        LET ev == Trace[i]
            W == WritesBefore(i, ev.node.name)
        IN  /\ ev.post = ev.pre
            /\ ev.res = IF W = {} THEN Fault("Undefined identifier")
                        ELSE Value(Trace[Latest(W)].res.val)

\* x was assigned twice and more, and the lookup yielded the last value, not
\* the first.
C22_Witness ==
    /\ Ran
    /\ \E i \in EventsOf("Identifier") :
          LET W == WritesBefore(i, Trace[i].node.name)
          IN  /\ Cardinality(W) >= 2
              /\ Trace[i].res = Value(Trace[Latest(W)].res.val)
              /\ \E j \in W : Trace[j].res # Trace[i].res

(***************************************************************************)
(* Properties of render loops                                              *)
(***************************************************************************)
\* Handle h was returned by a create and its entry has left the table.
Removed(h) == h \in issued /\ h \notin DOMAIN registry

\* C23: a removed Window or VoxelWorld handle stays removed, every update
\* call a render loop makes on it from then on returns false and ends the
\* loop, and a loop running on it does end.
C23_RenderLoopEnds ==
    /\ [][\A h \in Ids : Removed(h) =>
            /\ Removed(h)'
            /\ render_loop.state = "running" /\ render_loop.h = h
               /\ render_loop'.tick # render_loop.tick
               => last'.ret = FALSE /\ render_loop'.state = "done"]_vars
    /\ \A h \in Ids :
          (render_loop.state = "running" /\ render_loop.h = h /\ Removed(h))
              ~> (render_loop.state = "done")

\* A loop that ran has been left on the false of an update on a removed
\* window.
C23_Witness ==
    /\ render_loop.state = "done" /\ render_loop.op = "window_update"
    /\ Removed(render_loop.h)
    /\ last = Call("window_update", render_loop.h, FALSE, NoDiag)

(***************************************************************************)
(* Properties of native dispatch                                           *)
(***************************************************************************)
\* The registry operation named op, applied to the handle h, is what the step
\* did to the registry, and nothing else was done to it.
DidExactly(op, h) ==
    LET out == ClosureOf(op, registry, AsUsize(h))
    IN  /\ registry' = out.registry
        /\ last' = Call(op, h, out.ret, out.diag)
        /\ next_id' = next_id
        /\ issued' = issued

Dispatched == native_call'.seq # native_call.seq

Forwarded == Dispatched /\ handled' # NoHandled

Incrementing(h) == {t \in Threads : th[t].op = "increment" /\ th[t].h = h}

\* C25: increments of one live counter from several threads lose no update:
\* once every increment call on the counter has returned, get_value returns
\* the number of increment calls made on it.
C25_NoLostUpdate ==
    \A h \in Ids :
        LiveKind(registry, h, "Counter") /\ Incrementing(h) = {}
            => get_value_closure(registry, h).ret = incs[h]

\* Every increment of a counter has returned, the other thread is inside a
\* create with the id guard in hand, and get_value returns the two increments
\* made.
C25_Witness ==
    \E h \in Ids :
        /\ LiveKind(registry, h, "Counter")
        /\ Incrementing(h) = {}
        /\ incs[h] = 2
        /\ get_value_closure(registry, h).ret = 2
        /\ \E t \in Threads : th[t].op = "create_counter" /\ id_lock = t

\* The threads that have taken an id for the entry they create.
Allocated == {t \in Threads : Running(t) /\ th[t].id # 0}

\* C26: under every interleaving of creates, no two creates get the same
\* handle, none gets a handle that was returned before, an insert adds one
\* entry and leaves every other entry as it was, and every handle a create
\* has returned has its entry with ref_count 1.
C26_CreatesDistinct ==
    /\ [](\A t \in Allocated :
            /\ th[t].id \notin issued
            /\ \A u \in Allocated \ {t} : th[u].id # th[t].id)
    /\ [](\A id \in issued : id \in DOMAIN registry /\ registry[id].ref_count = 1)
    /\ [][/\ \A id \in DOMAIN registry :
                id \in DOMAIN registry' /\ registry'[id] = registry[id]
          /\ Cardinality(DOMAIN registry') <= Cardinality(DOMAIN registry) + 1]_vars

\* Two creates that ran side by side have both returned: while one held its id
\* the other was in its backend, and now both handles have their entry.
C26_Witness ==
    /\ issued = {1, 2}
    /\ \A t \in Threads : ~Running(t)
    /\ registry[1].ref_count = 1 /\ registry[2].ref_count = 1
    /\ registry[1].handle.kind # registry[2].handle.kind

(***************************************************************************)
(* Properties of the lifecycle counts                                      *)
(***************************************************************************)
\* C27: on a handle nobody frees, the entry, while it is in the table, has
\* ref_count 1 + retains - releases; a release leaves the entry in the table
\* unless it is the release that takes the releases past the retains, and that
\* release, and no other call, removes it.
C27_RefCountFormula ==
    /\ [](\A h \in issued :
            frees[h] = 0 /\ Live(registry, h)
                => registry[h].ref_count = 1 + retains[h] - releases[h])
    /\ [][\A h \in issued :
            frees'[h] = 0 /\ Live(registry, h) =>
                /\ Live(registry', h) <=> releases'[h] <= retains'[h]
                /\ ~Live(registry', h)
                      => /\ last'.op = "release" /\ last'.h = h
                         /\ releases'[h] = releases[h] + 1
                         /\ releases'[h] = retains[h] + 1]_vars

\* After one retain, the first release has left the entry in the table with
\* ref_count 1.
C27_Witness ==
    \E h \in issued :
        /\ frees[h] = 0
        /\ retains[h] = 1 /\ releases[h] = 1
        /\ last.op = "release" /\ last.h = h
        /\ Live(registry, h)
        /\ registry[h].ref_count = 1

(***************************************************************************)
(* Properties of removed handles and of the other entries                  *)
(***************************************************************************)
\* The calls that take a handle.
HandleOps ==
    {"retain", "release", "free", "window_close", "increment", "get_value",
     "elapsed_ms", "window_update", "file_write", "fill_color", "voxel_add_block",
     "voxel_render_frame"}

\* C28: a handle whose entry was removed stays out of the table for good,
\* whatever is created later, and every call on it leaves the table and the
\* next id exactly as they were.
C28_NoResurrection ==
    [][\A h \in Ids :
          Removed(h) =>
              /\ Removed(h)'
              /\ (last'.op \in HandleOps /\ last'.h = h)
                    => registry' = registry /\ next_id' = next_id]_vars

\* A retain on a handle that was removed, with an entry created after the
\* removal in the table.
C28_Witness ==
    /\ last.op = "retain"
    /\ Removed(last.h)
    /\ \E g \in DOMAIN registry : g > last.h

\* C29: a call on the handle h changes at most the entry of h: every other
\* handle is in the table after the call exactly if it was before, with the
\* same resource and the same ref_count, and the next id is what it was.
C29_Frame ==
    [][last'.op \in HandleOps =>
          /\ \A g \in Ids \ {AsUsize(last'.h)} :
                /\ g \in DOMAIN registry' <=> g \in DOMAIN registry
                /\ g \in DOMAIN registry => registry'[g] = registry[g]
          /\ next_id' = next_id]_vars

\* An increment has raised a counter that sits next to an entry held twice.
C29_Witness ==
    /\ last.op = "increment"
    /\ LiveKind(registry, last.h, "Counter")
    /\ registry[last.h].handle.count = 1
    /\ \E g \in DOMAIN registry \ {last.h} : registry[g].ref_count = 2

(***************************************************************************)
(* Properties of the rendering of the store                                *)
(***************************************************************************)
\* C30 as stated: every run whose evaluation ended with a value has returned
\* its report; rendering the store never ends the process, whatever values the
\* store holds, Void included.
C30_AlwaysReports ==
    (Ran /\ RootResult.kind \in {"Value", "ReturnBlockInfo"})
        => status = "returned"

(***************************************************************************)
(* Properties of integer arithmetic at the edges of i64                    *)
(***************************************************************************)
\* C31 as stated: Add, Sub and Mul on two Ints, and Div on two Ints with a
\* divisor other than zero, always come back with an Int of the signed range,
\* evaluation going on, also when the mathematical result is out of range.
C31_IntTotal ==
    Ran => \A i \in OnValues({"Add", "Sub", "Mul", "Div"}) :
        LET ev == Trace[i]
            a == ev.kids[1].res.val
            b == ev.kids[2].res.val
        IN  (a.t = "Int" /\ b.t = "Int" /\ ~(ev.node.k = "Div" /\ b.i = 0))
                => /\ ev.res.kind = "Value"
                   /\ ev.res.val.t = "Int"
                   /\ InRange(ev.res.val.i)

=============================================================================
